---- MODULE Spec2Model ----
(***************************************************************************)
(* hai.parallel.ParallelRun: a thread pool that runs named callables, and  *)
(* the wait / maybe_raise protocol over the handles it returns.            *)
(*                                                                         *)
(* A handle is a multiprocessing.pool.ApplyResult; the pool is a           *)
(* multiprocessing.pool.ThreadPool of `parallelism` worker threads fed by  *)
(* one FIFO queue.  The threads of the model are the caller's thread,      *)
(* which runs add_task / wait / maybe_raise on the ParallelRun, and the    *)
(* pool's workers, which run the task bodies.  Every read of a handle by   *)
(* a loop of the caller (task.ready() in _wait_tick, the comprehension of  *)
(* the exceptions property) is a step of its own, so that a task can       *)
(* finish between two reads.                                               *)
(***************************************************************************)
EXTENDS Integers, Sequences, FiniteSets, TLC

\* add_task calls made on the ParallelRun by the caller's thread.
MaxTasks == 3

\* Largest pool size tried: ParallelRun(parallelism = 1 .. MaxParallelism).
MaxParallelism == 2

VARIABLES
    parallelism,      \* ThreadPool(processes=...): number of worker threads
    handles,          \* every ApplyResult made so far, by id 1..Len(handles)
    taskqueue,        \* the pool's FIFO of submitted, not yet started handles
    tasks,            \* self.tasks of each registry: ids in add_task order
    completed_tasks,  \* self.completed_tasks of each registry
    wt,               \* position of each registry's wait() call
    result,           \* how each registry's latest wait() call ended
    mr,               \* position of the caller's maybe_raise() call
    raised,           \* how the latest maybe_raise() call ended
    task_complete_event,  \* self.task_complete_event of the ParallelRun: set or not
    call,             \* max_wait, callback and timing of the wait() in progress
    limiter,          \* a RateLimiter, its clock and its latest TickResult
    pump,             \* a pipe pump: its buffers, lines and handler calls
    emitter,          \* an EventEmitter: its handlers and the calls made
    upload            \* a MultipartUploader's upload and the S3 calls made

\* What the pool and the registries leave alone.
others == <<task_complete_event, call, limiter, pump, emitter, upload>>

vars == <<parallelism, handles, taskqueue, tasks, completed_tasks, wt, result,
          mr, raised, others>>

\* The registry of the ParallelRun itself.
Top == 0

----------------------------------------------------------------------------
(* Values *)

\* ApplyResult._value before the worker has set it.
NoValue == [kind |-> "unset", src |-> 0]

\* What return_true returns, as the object made by the call of handle t.
Ret(t) == [kind |-> "True", src |-> t]

\* The RuntimeError("agh!") raised by the call of handle t.
Err(t) == [kind |-> "RuntimeError", src |-> t]

\* The callables the caller submits.
Callables == {"return_true", "agh"}

\* Callables that make a Chord on the ParallelRun they are given, add
\* sub-tasks to it, wait on it and return its return_values.
\* run_chord_unguarded is run_chord_with_error without its try/except.
ChordCallables == {"run_chord", "run_chord_with_error", "run_chord_unguarded"}

\* The callables a chord body adds to its Chord, as names task_0, task_1.
SubTasks(fn) ==
    IF fn = "run_chord" THEN <<"return_true", "return_true">>
    ELSE <<"return_true", "agh">>

\* Whether the body catches the TaskFailed of chord.wait() and waits again.
Guarded(fn) == fn = "run_chord_with_error"

Range(s) == {s[i] : i \in 1..Len(s)}

----------------------------------------------------------------------------
(* Handles *)

\* ApplyResult.ready()
ready_once_started(t) == handles[t].st # "Pending"

ready(t) == handles[t].st \in {"Succeeded", "Failed"}

\* ApplyResult._success
success(t) == handles[t].st = "Succeeded"

----------------------------------------------------------------------------
(* The views *)

\* The last handle of seq s among those of set kept that has name n.
FirstNamed(s, n, kept) ==
    LET idx == {i \in 1..Len(s) : s[i] \in kept /\ handles[s[i]].name = n}
    IN  s[CHOOSE i \in idx : \A j \in idx : i <= j]

LastNamed(s, n, kept) ==
    LET idx == {i \in 1..Len(s) : s[i] \in kept /\ handles[s[i]].name = n}
    IN  s[CHOOSE i \in idx : \A j \in idx : j <= i]

\* {t.name: t._value for t in s if t in kept}, later entries overwriting.
NameMap(s, kept) ==
    LET names == {handles[s[i]].name : i \in {j \in 1..Len(s) : s[j] \in kept}}
    IN  [n \in names |-> handles[LastNamed(s, n, kept)].value]

\* The filter of return_values: t.ready()
IsReadyAndSucceeded(t) == ready(t) /\ success(t)

IsReady(t) == ready(t)

\* The filter of exceptions: t.ready() and not t._success
IsFailedOrNot(t) == ready(t)

IsFailed(t) == ready(t) /\ ~success(t)

\* ParallelRun.return_values
return_values_of_all(r) == NameMap(tasks[Top], {t \in Range(tasks[Top]) : IsReady(t)})

return_values(r) == NameMap(tasks[r], {t \in Range(tasks[r]) : IsReady(t)})

\* ParallelRun.exceptions
exceptions_of_all(r) == NameMap([t \in 1..Len(handles) |-> t], {t \in 1..Len(handles) : IsFailed(t)})

exceptions(r) == NameMap(tasks[r], {t \in Range(tasks[r]) : IsFailed(t)})

----------------------------------------------------------------------------
(* The pool *)

Running == {t \in 1..Len(handles) : handles[t].st = "Running"}

\* A worker thread of the pool is idle.
HasIdleWorkerNoLimit == TRUE

HasIdleWorkerButOne == Cardinality(Running) + 1 < parallelism

HasIdleWorker == Cardinality(Running) < parallelism

\* A worker takes the oldest queued handle and starts its callable.
StartTask ==
    /\ taskqueue # <<>>
    /\ HasIdleWorker
    /\ handles' = [handles EXCEPT ![Head(taskqueue)].st = "Running"]
    /\ taskqueue' = Tail(taskqueue)
    /\ UNCHANGED <<parallelism, others, tasks, completed_tasks, wt, result, mr, raised>>

\* The handles that have ended in failure.
Failed == {t \in 1..Len(handles) : handles[t].st = "Failed"}

\* The callable of handle t has reached its return or raise.
BodyDone(t) ==
    \/ handles[t].fn \in Callables
    \/ /\ handles[t].fn \in ChordCallables
       /\ t \in DOMAIN tasks
       /\ wt[t].pc = "idle"
       /\ \/ result[t].kind = "returned"
          \/ result[t].kind = "TaskFailed" /\ ~Guarded(handles[t].fn)

\* The outcome of running the callable of handle t: (success, value).
\* A chord body returns chord.return_values, or dies of the TaskFailed
\* that chord.wait() raised and it did not catch.
Outcome(t) ==
    IF handles[t].fn = "agh"
    THEN [st |-> "Failed", value |-> Err(t)]
    ELSE IF handles[t].fn = "return_true"
    THEN [st |-> "Succeeded", value |-> Ret(t)]
    ELSE IF result[t].kind = "returned"
    THEN [st |-> "Succeeded",
          value |-> [kind |-> "dict", src |-> t, map |-> return_values(t)]]
    ELSE [st |-> "Failed",
          value |-> [kind |-> "TaskFailed", src |-> t, exc |-> result[t]]]

\* The callable of a running handle returns or raises; the worker stores the
\* outcome in the handle (ApplyResult._set), which makes it ready.  The
\* variant puts a task that raised back in the queue.
FinishTaskRetrying(t) ==
    /\ handles[t].st = "Running"
    /\ BodyDone(t)
    /\ IF Outcome(t).st = "Failed"
       THEN /\ handles' = [handles EXCEPT ![t].st = "Pending"]
            /\ taskqueue' = Append(taskqueue, t)
       ELSE /\ handles' = [handles EXCEPT ![t].st = Outcome(t).st,
                                          ![t].value = Outcome(t).value]
            /\ UNCHANGED taskqueue
    /\ UNCHANGED <<parallelism, others, tasks, completed_tasks, wt, result, mr,
                   raised>>

FinishTask(t) ==
    /\ handles[t].st = "Running"
    /\ BodyDone(t)
    /\ handles' = [handles EXCEPT ![t].st = Outcome(t).st,
                                  ![t].value = Outcome(t).value]
    /\ mr' = IF mr.pc = "scan" /\ Outcome(t).st = "Failed"
             THEN [mr EXCEPT !.seen = @ \cup {Failed \cup {t}}]
             ELSE mr
    /\ UNCHANGED <<parallelism, others, taskqueue, tasks, completed_tasks, wt, result,
                   raised>>

----------------------------------------------------------------------------
(* add_task *)

\* result[r] is how the latest call made on registry r ended; it is "none"
\* from the start of a call until a wait() ends.
NoResult == [kind |-> "none"]

add_task(r, fn, name) ==
    LET t == Len(handles) + 1 IN
    /\ handles' = Append(handles,
                    [name |-> name, fn |-> fn, st |-> "Pending", value |-> NoValue])
    /\ taskqueue' = Append(taskqueue, t)
    /\ tasks' = [tasks EXCEPT ![r] = Append(@, t)]
    /\ completed_tasks' = [completed_tasks EXCEPT ![r] = {}]
    /\ result' = [result EXCEPT ![r] = NoResult]

----------------------------------------------------------------------------
(* wait *)

\* TaskFailed(message, task=task, exception=exc) from exc
TaskFailedOfFirst(t) ==
    [kind |-> "TaskFailed", task |-> t, task_name |-> handles[t].name,
     exception |-> handles[1].value, cause |-> handles[1].value]

TaskFailed(t) ==
    [kind |-> "TaskFailed", task |-> t, task_name |-> handles[t].name,
     exception |-> handles[t].value, cause |-> handles[t].value]

\* A wait() call: its position (pc, i), its fail_fast argument and the
\* local had_any_incomplete_task of _wait_tick.  For the properties it also
\* keeps notReady, the handles the current scan polled as not ready, and
\* aborted_on, the handle whose TaskFailed ended the call made just before
\* this one on the same registry (0 if that call did not raise).
Idle == [pc |-> "idle", fail_fast |-> FALSE, i |-> 0,
         had_any_incomplete_task |-> FALSE, notReady |-> {}, aborted_on |-> 0]

\* wait(fail_fast): clear the completed set and enter the loop.
WaitBegin(r, fail_fast) ==
    /\ wt[r].pc = "idle"
    /\ completed_tasks' = [completed_tasks EXCEPT ![r] = {}]
    /\ wt' = [wt EXCEPT ![r] = [pc |-> "scan", fail_fast |-> fail_fast, i |-> 1,
                                had_any_incomplete_task |-> FALSE,
                                notReady |-> {},
                                aborted_on |->
                                    IF result[r].kind = "TaskFailed"
                                    THEN result[r].task ELSE 0]]
    /\ result' = [result EXCEPT ![r] = NoResult]

\* The order in which _wait_tick visits the handles.
ScanOrderReversed(r) ==
    [i \in 1..Len(tasks[r]) |-> tasks[r][Len(tasks[r]) + 1 - i]]

ScanOrder(r) == tasks[r]

\* One iteration of the for loop of _wait_tick.  The variant raises for a
\* failed task whatever fail_fast is.
WaitPollRaising(r) ==
    /\ wt[r].pc = "scan"
    /\ wt[r].i <= Len(tasks[r])
    /\ LET t == ScanOrder(r)[wt[r].i] IN
       IF t \in completed_tasks[r]
       THEN /\ wt' = [wt EXCEPT ![r].i = @ + 1]
            /\ UNCHANGED <<completed_tasks, result>>
       ELSE IF ~ready(t)
       THEN /\ wt' = [wt EXCEPT ![r].i = @ + 1,
                                ![r].had_any_incomplete_task = TRUE,
                                ![r].notReady = @ \cup {t}]
            /\ UNCHANGED <<completed_tasks, result>>
       ELSE /\ completed_tasks' = [completed_tasks EXCEPT ![r] = @ \cup {t}]
            /\ IF ~success(t)
               THEN /\ result' = [result EXCEPT ![r] = TaskFailed(t)]
                    /\ wt' = [wt EXCEPT ![r].pc = "idle"]
               ELSE /\ wt' = [wt EXCEPT ![r].i = @ + 1]
                    /\ UNCHANGED result

WaitPoll(r) ==
    /\ wt[r].pc = "scan"
    /\ wt[r].i <= Len(tasks[r])
    /\ LET t == ScanOrder(r)[wt[r].i] IN
       IF t \in completed_tasks[r]
       THEN /\ wt' = [wt EXCEPT ![r].i = @ + 1]
            /\ UNCHANGED <<completed_tasks, result>>
       ELSE IF ~ready(t)
       THEN /\ wt' = [wt EXCEPT ![r].i = @ + 1,
                                ![r].had_any_incomplete_task = TRUE,
                                ![r].notReady = @ \cup {t}]
            /\ UNCHANGED <<completed_tasks, result>>
       ELSE /\ completed_tasks' = [completed_tasks EXCEPT ![r] = @ \cup {t}]
            /\ IF wt[r].fail_fast /\ ~success(t)
               THEN /\ result' = [result EXCEPT ![r] = TaskFailed(t)]
                    /\ wt' = [wt EXCEPT ![r].pc = "idle"]
               ELSE /\ wt' = [wt EXCEPT ![r].i = @ + 1]
                    /\ UNCHANGED result

\* The two break conditions of the loop of wait.
BreakWaitEarly(r) == TRUE

BreakWait(r) ==
    \/ ~wt[r].had_any_incomplete_task
    \/ Cardinality(completed_tasks[r]) = Len(tasks[r])

\* After _wait_tick returned: leave the loop and return the completed
\* handles, or sleep on task_complete_event.
WaitTickEnd(r) ==
    /\ wt[r].pc = "scan"
    /\ wt[r].i > Len(tasks[r])
    /\ IF BreakWait(r)
       THEN /\ wt' = [wt EXCEPT ![r].pc = "idle"]
            /\ result' = [result EXCEPT ![r] =
                             [kind |-> "returned", list |-> completed_tasks[r]]]
       ELSE /\ wt' = [wt EXCEPT ![r].pc = "sleep"]
            /\ UNCHANGED result
    /\ UNCHANGED completed_tasks

\* task_complete_event.wait(interval) returns; the next iteration begins.
WaitWake(r) ==
    /\ wt[r].pc = "sleep"
    /\ wt' = [wt EXCEPT ![r].pc = "scan", ![r].i = 1,
                        ![r].had_any_incomplete_task = FALSE,
                        ![r].notReady = {}]
    /\ UNCHANGED <<completed_tasks, result>>

----------------------------------------------------------------------------
(* maybe_raise *)

MrIdle == [pc |-> "idle", j |-> 0, found |-> {}, seen |-> {}]

\* maybe_raise() starts reading self.exceptions.  seen records every value
\* the set of failed handles takes while the call runs.
MaybeRaiseBegin ==
    /\ mr.pc = "idle"
    /\ wt[Top].pc = "idle"
    /\ mr' = [pc |-> "scan", j |-> 1, found |-> {}, seen |-> {Failed}]
    /\ UNCHANGED <<parallelism, others, handles, taskqueue, tasks, completed_tasks, wt,
                   result, raised>>

\* One iteration of the comprehension: t.ready() and not t._success.
MaybeRaisePoll ==
    /\ mr.pc = "scan"
    /\ mr.j <= Len(tasks[Top])
    /\ LET t == tasks[Top][mr.j] IN
       mr' = [mr EXCEPT !.j = @ + 1,
                        !.found = IF IsFailed(t) THEN @ \cup {t} ELSE @]
    /\ UNCHANGED <<parallelism, others, handles, taskqueue, tasks, completed_tasks, wt,
                   result, raised>>

InFound(t) == t \in mr.found

\* What maybe_raise does with the mapping it read: raise TasksFailed
\* (exception_map; failed_task_names is its key set) or return.
MaybeRaiseOutcomeOnce ==
    IF mr.found # {} /\ mr.found # raised.found
    THEN [kind |-> "TasksFailed", exception_map |-> NameMap(tasks[Top], {t \in Range(tasks[Top]) : InFound(t)})]
    ELSE [kind |-> "returned", exception_map |-> <<>>]

MaybeRaiseOutcome ==
    IF mr.found # {}
    THEN [kind |-> "TasksFailed", exception_map |-> NameMap(tasks[Top], {t \in Range(tasks[Top]) : InFound(t)})]
    ELSE [kind |-> "returned", exception_map |-> <<>>]

\* The end of the call.  For the properties the outcome keeps found and
\* seen, and what the call before it did when no handle has failed that the
\* call before had not reported: repeat, and then its mapping prev_map.
MaybeRaiseEnd ==
    /\ mr.pc = "scan"
    /\ mr.j > Len(tasks[Top])
    /\ LET repeat == raised.kind = "TasksFailed" /\ Failed = raised.found IN
       raised' = [kind |-> MaybeRaiseOutcome.kind,
                  exception_map |-> MaybeRaiseOutcome.exception_map,
                  found |-> mr.found, seen |-> mr.seen, repeat |-> repeat,
                  prev_map |-> IF repeat THEN raised.exception_map ELSE <<>>]
    /\ mr' = MrIdle
    /\ UNCHANGED <<parallelism, others, handles, taskqueue, tasks, completed_tasks, wt,
                   result>>

----------------------------------------------------------------------------
(* Chord: a registry of its own on the pool of the ParallelRun, made and   *)
(* awaited by a task body that runs in that pool.  The registry of the     *)
(* Chord made by handle t is t.                                            *)

IsChordBody(t) == handles[t].st = "Running" /\ handles[t].fn \in ChordCallables

\* chord = parallel.chord()
chord(t) ==
    /\ IsChordBody(t)
    /\ t \notin DOMAIN tasks
    /\ tasks' = tasks @@ (t :> <<>>)
    /\ completed_tasks' = completed_tasks @@ (t :> {})
    /\ wt' = wt @@ (t :> Idle)
    /\ result' = result @@ (t :> NoResult)
    /\ UNCHANGED <<parallelism, others, handles, taskqueue, mr, raised>>

\* chord.add_task(fn, name="task_<k>")
ChordAddTask(t) ==
    /\ IsChordBody(t)
    /\ t \in DOMAIN tasks
    /\ Len(tasks[t]) < Len(SubTasks(handles[t].fn))
    /\ add_task(t, SubTasks(handles[t].fn)[Len(tasks[t]) + 1], Len(tasks[t]) + 1)
    /\ UNCHANGED <<parallelism, others, wt, mr, raised>>

\* chord.wait(), and chord.wait(fail_fast=False) in the except clause.
ChordWait(t) ==
    /\ IsChordBody(t)
    /\ t \in DOMAIN tasks
    /\ Len(tasks[t]) = Len(SubTasks(handles[t].fn))
    /\ \/ result[t].kind = "none" /\ WaitBegin(t, TRUE)
       \/ /\ result[t].kind = "TaskFailed"
          /\ Guarded(handles[t].fn)
          /\ WaitBegin(t, FALSE)
    /\ UNCHANGED <<parallelism, others, handles, taskqueue, tasks, mr, raised>>

----------------------------------------------------------------------------
(* The caller's thread *)

CallerIdle == wt[Top].pc = "idle" /\ mr.pc = "idle"

\* parallel.add_task(fn, name=...) of a leaf callable.
CallAddTask ==
    /\ CallerIdle
    /\ Len(tasks[Top]) < MaxTasks
    /\ \E fn \in Callables, name \in 1..(Len(tasks[Top]) + 1) :
          add_task(Top, fn, name)
    /\ UNCHANGED <<parallelism, others, wt, mr, raised>>

\* parallel.wait(fail_fast=...)
CallWait ==
    /\ CallerIdle
    /\ \E fail_fast \in BOOLEAN : WaitBegin(Top, fail_fast)
    /\ UNCHANGED <<parallelism, others, handles, taskqueue, tasks, mr, raised>>

\* A step of the wait() call in progress on registry r.
WaitStep(r) ==
    /\ \/ WaitPoll(r)
       \/ WaitTickEnd(r)
       \/ WaitWake(r)
    /\ UNCHANGED <<parallelism, others, handles, taskqueue, tasks, mr, raised>>

\* A wait() call without max_wait and without callback.
NoCall == [max_wait |-> 0, waited_for |-> 0, callback |-> FALSE, called |-> {}]

\* No RateLimiter made.
NoLimiter == [kind |-> "none"]

\* No pipe pump made.
NoPump == [kind |-> "none"]

\* No EventEmitter made.
NoEmitter == [kind |-> "none"]

\* No upload started.
NoUpload == [kind |-> "none"]

InitPool(sizes) ==
    /\ parallelism \in sizes
    /\ task_complete_event = FALSE
    /\ call = NoCall
    /\ limiter = NoLimiter
    /\ pump = NoPump
    /\ emitter = NoEmitter
    /\ upload = NoUpload
    /\ handles = <<>>
    /\ taskqueue = <<>>
    /\ tasks = (Top :> <<>>)
    /\ completed_tasks = (Top :> {})
    /\ wt = (Top :> Idle)
    /\ result = (Top :> NoResult)
    /\ mr = MrIdle
    /\ raised = [kind |-> "none", exception_map |-> <<>>, found |-> {},
                 seen |-> {}, repeat |-> FALSE, prev_map |-> <<>>]

----------------------------------------------------------------------------
(* Spec: add_task and wait on a ParallelRun of leaf tasks *)

Init == InitPool(1..MaxParallelism)

Next ==
    \/ CallAddTask
    \/ CallWait
    \/ WaitStep(Top)
    \/ StartTask
    \/ \E t \in 1..Len(handles) : FinishTask(t)

Spec == Init /\ [][Next]_vars

\* A step of a worker thread of the pool.
Work ==
    \/ StartTask
    \/ \E t \in 1..Len(handles) : FinishTask(t)

\* The threads are scheduled fairly: the workers run the bodies they have
\* and take the next handle of the queue, and a wait() loop keeps polling.
FairSpec == Spec /\ WF_vars(Work) /\ WF_vars(WaitStep(Top))

----------------------------------------------------------------------------
(* RaiseSpec: add_task and maybe_raise on a ParallelRun of leaf tasks.     *)
(* maybe_raise reads the handles only, which wait() does not change.       *)

RaiseNext ==
    \/ CallAddTask
    \/ MaybeRaiseBegin
    \/ MaybeRaisePoll
    \/ MaybeRaiseEnd
    \/ StartTask
    \/ \E t \in 1..Len(handles) : FinishTask(t)

RaiseSpec == Init /\ [][RaiseNext]_vars

----------------------------------------------------------------------------
(* ChordSpec: test_parallel_chord_task_fail, a ParallelRun whose tasks     *)
(* make Chords on its pool                                                 *)

\* The tasks the test adds, in order: return_true, chord_ok (run_chord) and
\* chord_fail (run_chord_with_error, tried without its try/except too).
test_parallel_chord_task_fail ==
    <<{"return_true"}, {"run_chord"},
      {"run_chord_with_error", "run_chord_unguarded"}>>

\* The tasks of the test that make a Chord.
ChordOwners ==
    Cardinality({i \in 1..Len(test_parallel_chord_task_fail) :
                    test_parallel_chord_task_fail[i] \subseteq ChordCallables})

\* The handles of the test: its tasks and the sub-tasks of their Chords.
AllHandles ==
    Len(test_parallel_chord_task_fail) + ChordOwners * Len(SubTasks("run_chord"))

\* Pool sizes tried: up to one worker more than there are chord owners, and
\* one worker per handle.
PoolSizes == 1..(ChordOwners + 1) \cup {AllHandles}

\* parallel.add_task(fn, kwargs={"parallel": parallel}, name=...)
CallAddOuter ==
    /\ CallerIdle
    /\ Len(tasks[Top]) < Len(test_parallel_chord_task_fail)
    /\ \E fn \in test_parallel_chord_task_fail[Len(tasks[Top]) + 1] :
          add_task(Top, fn, Len(tasks[Top]) + 1)
    /\ UNCHANGED <<parallelism, others, wt, mr, raised>>

\* parallel.wait(), once every task of the test is added.
CallWaitOnce ==
    /\ CallerIdle
    /\ Len(tasks[Top]) = Len(test_parallel_chord_task_fail)
    /\ result[Top].kind = "none"
    /\ WaitBegin(Top, TRUE)
    /\ UNCHANGED <<parallelism, others, handles, taskqueue, tasks, mr, raised>>

ChordInit == InitPool(PoolSizes)

ChordNext ==
    \/ CallAddOuter
    \/ CallWaitOnce
    \/ \E r \in DOMAIN tasks : WaitStep(r)
    \/ StartTask
    \/ \E t \in 1..Len(handles) : FinishTask(t)
    \/ \E t \in 1..Len(handles) : chord(t)
    \/ \E t \in 1..Len(handles) : ChordAddTask(t)
    \/ \E t \in 1..Len(handles) : ChordWait(t)

ChordSpec == ChordInit /\ [][ChordNext]_vars

\* A step of the caller or of a worker other than a step of a wait() loop.
Progress ==
    \/ CallAddOuter
    \/ CallWaitOnce
    \/ StartTask
    \/ \E t \in 1..Len(handles) : FinishTask(t)
    \/ \E t \in 1..Len(handles) : chord(t)
    \/ \E t \in 1..Len(handles) : ChordAddTask(t)
    \/ \E t \in 1..Len(handles) : ChordWait(t)

\* The threads are scheduled fairly: the caller and the workers take the
\* steps they can take, and every wait() loop keeps polling.
ChordFairness ==
    /\ WF_vars(Progress)
    /\ \A r \in 0..AllHandles : WF_vars(r \in DOMAIN tasks /\ WaitStep(r))

\* The pool sizes around the number of chord owners.
FairChordInit == InitPool(1..(ChordOwners + 1))

FairChordSpec == FairChordInit /\ [][ChordNext]_vars /\ ChordFairness

----------------------------------------------------------------------------
(* Properties of Spec *)

Handles == 1..Len(handles)

Pending == {t \in Handles : handles[t].st = "Pending"}

\* C1: at most `parallelism` task bodies run at the same time, whatever the
\* number of add_task calls, and a handle that has not been started is still
\* in the pool's queue (it leaves the queue only for an idle worker).
C1_InFlightAtMostCapacity ==
    /\ Cardinality(Running) <= parallelism
    /\ Range(taskqueue) = Pending
    /\ Len(taskqueue) = Cardinality(Pending)

\* The pool is full while further submissions are queued.
C1_Witness ==
    /\ Cardinality(Running) = parallelism
    /\ Len(taskqueue) >= 1
    /\ Len(handles) > parallelism

\* C5: the TaskFailed raised by wait(fail_fast=True) carries the handle it
\* found failed, that handle's name, and as exception and cause the error
\* the body of that handle raised; and a fail-fast wait does not go on past
\* a failed handle it has polled.
C5_TaskFailedCarriesTheError ==
    /\ result[Top].kind = "TaskFailed" =>
          LET e == result[Top] IN
          /\ e.task \in Range(tasks[Top])
          /\ handles[e.task].st = "Failed"
          /\ e.task_name = handles[e.task].name
          /\ e.exception = Err(e.task)
          /\ e.cause = Err(e.task)
    /\ (wt[Top].pc # "idle" /\ wt[Top].fail_fast) =>
          completed_tasks[Top] \cap Failed = {}

\* wait(fail_fast=True) has raised for a handle that is not the first one.
C5_Witness ==
    /\ result[Top].kind = "TaskFailed"
    /\ wt[Top].fail_fast
    /\ result[Top].task # tasks[Top][1]

\* The handles added to registry r before handle t.
Before(r, t) ==
    {tasks[r][i] : i \in {j \in 1..Len(tasks[r]) :
                            \E k \in (j + 1)..Len(tasks[r]) : tasks[r][k] = t}}

\* The step in which the wait() on the ParallelRun raises TaskFailed.
RaiseStep == result[Top].kind = "none" /\ result'[Top].kind = "TaskFailed"

\* C6 as claimed: when wait(fail_fast=True) raises, no handle added before
\* the reported one is Failed.
C6_NoEarlierFailed ==
    [][RaiseStep => Before(Top, result'[Top].task) \cap Failed' = {}]_vars

\* C6 as amended: when wait(fail_fast=True) raises, every handle added before
\* the reported one was Succeeded or not yet ready when this scan polled it:
\* one that is Failed by now was polled as not ready in this scan.
C6_FirstFoundFailed ==
    [][RaiseStep =>
        /\ Before(Top, result'[Top].task) \cap Failed' \subseteq wt[Top].notReady
        /\ Before(Top, result'[Top].task) \cap completed_tasks[Top] \cap Failed' = {}
      ]_vars

\* A raise that reports a handle added after one that has failed too.
C6_Witness ==
    /\ result[Top].kind = "TaskFailed"
    /\ Before(Top, result[Top].task) \cap Failed \cap wt[Top].notReady # {}

\* C7: the step that raises TaskFailed changes no handle and leaves the
\* pool's queue as it is; no wait() polls for ever, a wait(fail_fast=False)
\* ends by returning, and the one that follows the abort returns only with
\* every registered handle terminal and in the list it returns, the handle
\* that failed among them.
C7_AbortCancelsNothing ==
    /\ [][RaiseStep => UNCHANGED <<handles, taskqueue, tasks, parallelism>>]_vars
    /\ []<>(wt[Top].pc = "idle")
    /\ [][(wt[Top].pc # "idle" /\ ~wt[Top].fail_fast /\ wt'[Top].pc = "idle")
            => result'[Top].kind = "returned"]_vars
    /\ [](( /\ result[Top].kind = "returned"
            /\ wt[Top].aborted_on # 0
            /\ ~wt[Top].fail_fast )
          => /\ \A t \in Range(tasks[Top]) : ready(t)
             /\ Range(tasks[Top]) = Handles
             /\ result[Top].list = Range(tasks[Top])
             /\ wt[Top].aborted_on \in result[Top].list
             /\ handles[wt[Top].aborted_on].st = "Failed")

\* A wait(fail_fast=False) has returned right after a fail-fast abort, and
\* another handle than the reported one was not ready at the abort.
C7_Witness ==
    /\ result[Top].kind = "returned"
    /\ wt[Top].aborted_on # 0
    /\ ~wt[Top].fail_fast
    /\ Len(tasks[Top]) >= 2

DistinctNames(r) ==
    \A i, j \in 1..Len(tasks[r]) :
        handles[tasks[r][i]].name = handles[tasks[r][j]].name => i = j

\* C8: with distinct names and only succeeding tasks, wait() returns only
\* when every handle is terminal, returns each handle (once: the completed
\* handles are a set), and return_values then has one entry per name, the
\* value that task returned.
C8_WaitReturnsAll ==
    ( /\ result[Top].kind = "returned"
      /\ DistinctNames(Top)
      /\ \A t \in Range(tasks[Top]) : handles[t].fn = "return_true" )
    => /\ \A t \in Range(tasks[Top]) : ready(t)
       /\ result[Top].list = Range(tasks[Top])
       /\ Cardinality(result[Top].list) = Len(tasks[Top])
       /\ DOMAIN return_values(Top) = {handles[t].name : t \in Range(tasks[Top])}
       /\ Cardinality(DOMAIN return_values(Top)) = Len(tasks[Top])
       /\ \A t \in Range(tasks[Top]) :
             return_values(Top)[handles[t].name] = Ret(t)

\* wait() has returned for as many succeeding tasks as the caller may add,
\* more of them than the pool has workers.
C8_Witness ==
    /\ result[Top].kind = "returned"
    /\ DistinctNames(Top)
    /\ \A t \in Range(tasks[Top]) : handles[t].fn = "return_true"
    /\ Len(tasks[Top]) = MaxTasks
    /\ Len(tasks[Top]) > parallelism

----------------------------------------------------------------------------
(* Properties of RaiseSpec *)

\* The failed handles when the latest maybe_raise() call began and when it
\* ended: the least and the greatest of the sets it has seen.
FailedAtBegin == CHOOSE lo \in raised.seen : \A F \in raised.seen : lo \subseteq F

FailedAtEnd == CHOOSE hi \in raised.seen : \A F \in raised.seen : F \subseteq hi

\* C9 as claimed, "currently" being any one instant of the call:
\* maybe_raise() raises exactly when a handle is Failed, and the handles its
\* mapping covers are exactly the handles that are Failed at that instant.
C9_ExactlyTheFailed ==
    raised.kind # "none" =>
        /\ raised.kind = "TasksFailed" <=> raised.found # {}
        /\ raised.found \in raised.seen

\* C9 as amended: maybe_raise() raises exactly when its scan found a handle
\* Failed; the mapping and failed_task_names cover the handles found, which
\* include every handle that was Failed when the call began and only
\* handles that are Failed when it ends; the error under a name is the one
\* raised by the last handle found under it; without a handle found the
\* call does nothing.
C9_TheFailedItFound ==
    raised.kind # "none" =>
        /\ raised.kind \in {"TasksFailed", "returned"}
        /\ raised.kind = "TasksFailed" <=> raised.found # {}
        /\ FailedAtBegin \subseteq raised.found
        /\ raised.found \subseteq FailedAtEnd
        /\ DOMAIN raised.exception_map = {handles[t].name : t \in raised.found}
        /\ \A n \in DOMAIN raised.exception_map :
              \E t \in raised.found :
                  /\ handles[t].name = n
                  /\ raised.exception_map[n] = Err(t)
                  /\ \A u \in raised.found : handles[u].name = n => u <= t

\* maybe_raise() has raised for two failed handles of one name and not for
\* a handle that succeeded.
C9_Witness ==
    /\ raised.kind = "TasksFailed"
    /\ Cardinality(raised.found) = 2
    /\ Cardinality(DOMAIN raised.exception_map) = 1
    /\ \E t \in Handles : handles[t].st = "Succeeded"

\* C10 as claimed: a maybe_raise() call that follows one that raised, no
\* handle having failed that the first had not reported, does not raise.
C10_SecondCallIsNoOp == raised.repeat => raised.kind = "returned"

\* C10 as amended: a maybe_raise() call that follows one that raised, no
\* handle having failed that the first had not reported, raises TasksFailed
\* again, with the same mapping.
C10_SecondCallRaisesAgain ==
    raised.repeat =>
        /\ raised.kind = "TasksFailed"
        /\ raised.exception_map = raised.prev_map
        /\ raised.exception_map # <<>>

\* Two maybe_raise() calls in a row with no failure the first did not report.
C10_Witness == raised.repeat /\ raised.kind = "TasksFailed"

----------------------------------------------------------------------------
(* Properties of ChordSpec *)

\* A wait() call is in progress on the Chord of handle r.
InChordWait(r) == r \in DOMAIN wt /\ wt[r].pc # "idle"

NoChordWait == \A r \in 1..AllHandles : ~InChordWait(r)

----------------------------------------------------------------------------
\* The value a chord body returns: the mapping of its own sub-tasks' names
\* to the True each returned, or to the RuntimeError of an agh.
OwnMapping(t) ==
    [kind |-> "dict", src |-> t,
     map |-> [k \in 1..Len(SubTasks(handles[t].fn)) |->
                IF SubTasks(handles[t].fn)[k] = "agh"
                THEN Err(tasks[t][k]) ELSE Ret(tasks[t][k])]]

\* C3: a task that makes a Chord of two succeeding sub-tasks, waits on it
\* and returns its return_values ends Succeeded with the mapping of its own
\* two sub-tasks, which is what return_values of the ParallelRun shows
\* under its name; a Chord holds the handles added to it and no other; with
\* a worker per handle no submission ever waits for a worker, and when
\* wait() returns every top-level task is terminal.
C3_ChordTaskReturnsOwnMapping ==
    /\ \A t \in Range(tasks[Top]) :
          (handles[t].fn = "run_chord" /\ ready(t)) =>
              /\ handles[t].st = "Succeeded"
              /\ handles[t].value = OwnMapping(t)
              /\ handles[t].value.map = <<Ret(tasks[t][1]), Ret(tasks[t][2])>>
              /\ return_values(Top)[handles[t].name] = handles[t].value
    /\ \A r, q \in DOMAIN tasks : r # q => Range(tasks[r]) \cap Range(tasks[q]) = {}
    /\ parallelism >= AllHandles => taskqueue = <<>> \/ Cardinality(Running) < parallelism
    /\ result[Top].kind = "returned" =>
          /\ \A t \in Range(tasks[Top]) : ready(t)
          /\ DOMAIN return_values(Top) = 1..Len(test_parallel_chord_task_fail)

\* With a worker per handle, wait() has returned and chord_ok has returned
\* the mapping of its two sub-tasks.
C3_Witness ==
    /\ parallelism >= AllHandles
    /\ result[Top].kind = "returned"
    /\ \E t \in Range(tasks[Top]) :
          /\ handles[t].fn = "run_chord"
          /\ handles[t].st = "Succeeded"
          /\ Len(tasks[t]) = 2

\* C4: the failure of a sub-task of a Chord stays in that Chord.  A
\* top-level task fails only if its body lets the TaskFailed of
\* chord.wait() escape, wait(fail_fast=True) of the ParallelRun raises for
\* such a task only, its exceptions view holds such tasks only and no
\* sub-task's error, and the other top-level tasks end as they do without
\* the failure: return_true with its value, a chord body that catches the
\* error with the mapping of its own sub-tasks.
C4_ChordFailureContained ==
    /\ \A t \in Range(tasks[Top]) :
          handles[t].st = "Failed" =>
              /\ handles[t].fn = "run_chord_unguarded"
              /\ handles[t].value.kind = "TaskFailed"
    /\ result[Top].kind = "TaskFailed" =>
          handles[result[Top].task].fn = "run_chord_unguarded"
    /\ \A n \in DOMAIN exceptions(Top) :
          /\ exceptions(Top)[n].kind = "TaskFailed"
          /\ \E t \in Range(tasks[Top]) :
                handles[t].name = n /\ handles[t].fn = "run_chord_unguarded"
    /\ \A t \in Range(tasks[Top]) :
          ready(t) /\ handles[t].fn # "run_chord_unguarded" =>
              /\ handles[t].st = "Succeeded"
              /\ handles[t].value =
                    IF handles[t].fn = "return_true" THEN Ret(t) ELSE OwnMapping(t)
    /\ \A t \in Handles :
          handles[t].fn = "agh" => t \notin Range(tasks[Top])

\* A sub-task of chord_fail has failed, chord_fail has caught it and
\* returned, and wait() of the ParallelRun has returned.
C4_Witness ==
    /\ result[Top].kind = "returned"
    /\ \E t \in Handles : handles[t].fn = "agh" /\ handles[t].st = "Failed"
    /\ \E t \in Range(tasks[Top]) :
          /\ handles[t].fn = "run_chord_with_error"
          /\ handles[t].st = "Succeeded"
    /\ exceptions(Top) = <<>>

\* The other case of C4: the body did not catch the error, and wait() of
\* the ParallelRun raised for that task.
C4_WitnessReraised ==
    /\ result[Top].kind = "TaskFailed"
    /\ handles[result[Top].task].fn = "run_chord_unguarded"

----------------------------------------------------------------------------
(* return_values *)

\* The handles of the ParallelRun that are ready, Succeeded or Failed.
ReadyTasks == {t \in Range(tasks[Top]) : ready(t)}

----------------------------------------------------------------------------
(* LoopSpec: wait() with its timeout, its callback and the completion      *)
(* event, and the two steps in which a worker stores an outcome            *)

\* add_task calls made on the ParallelRun in LoopSpec.
MaxLoopTasks == 2

\* Largest max_wait tried, in units of the clock; 0 is max_wait=None.
MaxMaxWait == 1

\* wait(fail_fast, interval, callback, max_wait) up to the loop: clear the
\* completed set and take start_time.  call.before is how the call before
\* this one ended.
wait(fail_fast, max_wait, callback) ==
    /\ CallerIdle
    /\ completed_tasks' = [completed_tasks EXCEPT ![Top] = {}]
    /\ wt' = [wt EXCEPT ![Top] = [pc |-> "top", fail_fast |-> fail_fast, i |-> 1,
                                  had_any_incomplete_task |-> FALSE,
                                  notReady |-> {},
                                  aborted_on |->
                                      IF result[Top].kind = "TaskFailed"
                                      THEN result[Top].task ELSE 0]]
    /\ result' = [result EXCEPT ![Top] = NoResult]
    /\ call' = [max_wait |-> max_wait, waited_for |-> 0, callback |-> callback,
                called |-> {}, before |-> result[Top].kind]
    /\ UNCHANGED <<parallelism, handles, taskqueue, tasks, mr, raised,
                   task_complete_event, limiter,
                   pump, emitter, upload>>

\* time.time() - start_time grows while the call lasts.
TimePasses ==
    /\ wt[Top].pc # "idle"
    /\ call.max_wait # 0
    /\ call.waited_for <= call.max_wait
    /\ call' = [call EXCEPT !.waited_for = @ + 1]
    /\ UNCHANGED <<parallelism, handles, taskqueue, tasks, completed_tasks, wt,
                   result, mr, raised, task_complete_event, limiter,
                   pump, emitter, upload>>

\* The top of the loop: if max_wait and waited_for > max_wait, raise
\* TimeoutError; otherwise _wait_tick begins.  The variant ends the tasks
\* that are not ready when it raises.
TimeoutCheckCancelling ==
    /\ wt[Top].pc = "top"
    /\ IF call.max_wait # 0 /\ call.waited_for > call.max_wait
       THEN /\ result' = [result EXCEPT ![Top] =
                            [kind |-> "TimeoutError",
                             waited_for |-> call.waited_for,
                             max_wait |-> call.max_wait]]
            /\ wt' = [wt EXCEPT ![Top].pc = "idle"]
            /\ handles' = [t \in 1..Len(handles) |->
                             IF ready(t) THEN handles[t]
                             ELSE [handles[t] EXCEPT !.st = "Failed"]]
            /\ taskqueue' = <<>>
       ELSE /\ wt' = [wt EXCEPT ![Top].pc = "scan", ![Top].i = 1,
                                ![Top].had_any_incomplete_task = FALSE,
                                ![Top].notReady = {}]
            /\ UNCHANGED <<result, handles, taskqueue>>
    /\ UNCHANGED <<parallelism, tasks, completed_tasks, mr, raised, others>>

\* The variant of the other order: it raises only while some registered
\* handle is not terminal.
TimeoutCheckUnlessComplete ==
    /\ wt[Top].pc = "top"
    /\ IF /\ call.max_wait # 0 /\ call.waited_for > call.max_wait
          /\ \E t \in Range(tasks[Top]) : ~ready(t)
       THEN /\ result' = [result EXCEPT ![Top] =
                            [kind |-> "TimeoutError",
                             waited_for |-> call.waited_for,
                             max_wait |-> call.max_wait]]
            /\ wt' = [wt EXCEPT ![Top].pc = "idle"]
       ELSE /\ wt' = [wt EXCEPT ![Top].pc = "scan", ![Top].i = 1,
                                ![Top].had_any_incomplete_task = FALSE,
                                ![Top].notReady = {}]
            /\ UNCHANGED result
    /\ UNCHANGED <<parallelism, handles, taskqueue, tasks, completed_tasks, mr,
                   raised, others>>

TimeoutCheck ==
    /\ wt[Top].pc = "top"
    /\ IF call.max_wait # 0 /\ call.waited_for > call.max_wait
       THEN /\ result' = [result EXCEPT ![Top] =
                            [kind |-> "TimeoutError",
                             waited_for |-> call.waited_for,
                             max_wait |-> call.max_wait]]
            /\ wt' = [wt EXCEPT ![Top].pc = "idle"]
       ELSE /\ wt' = [wt EXCEPT ![Top].pc = "scan", ![Top].i = 1,
                                ![Top].had_any_incomplete_task = FALSE,
                                ![Top].notReady = {}]
            /\ UNCHANGED result
    /\ UNCHANGED <<parallelism, handles, taskqueue, tasks, completed_tasks, mr,
                   raised, others>>

\* One iteration of the for loop of _wait_tick.
WaitTick ==
    /\ WaitPoll(Top)
    /\ UNCHANGED <<parallelism, handles, taskqueue, tasks, mr, raised, others>>

\* After _wait_tick returned: callback(self) if there is a callback, then
\* the two break conditions.  The variant calls back only when the loop
\* goes on.
AfterTickCallbackLate ==
    /\ wt[Top].pc = "scan"
    /\ wt[Top].i > Len(tasks[Top])
    /\ IF BreakWait(Top)
       THEN /\ wt' = [wt EXCEPT ![Top].pc = "idle"]
            /\ result' = [result EXCEPT ![Top] =
                             [kind |-> "returned", list |-> completed_tasks[Top]]]
            /\ UNCHANGED call
       ELSE /\ wt' = [wt EXCEPT ![Top].pc = "sleep"]
            /\ call' = [call EXCEPT !.called =
                            IF call.callback THEN @ \cup {Top} ELSE @]
            /\ UNCHANGED result
    /\ UNCHANGED <<parallelism, handles, taskqueue, tasks, completed_tasks, mr,
                   raised, task_complete_event, limiter,
                   pump, emitter, upload>>

AfterTick ==
    /\ wt[Top].pc = "scan"
    /\ wt[Top].i > Len(tasks[Top])
    /\ call' = [call EXCEPT !.called = IF call.callback THEN @ \cup {Top} ELSE @]
    /\ IF BreakWait(Top)
       THEN /\ wt' = [wt EXCEPT ![Top].pc = "idle"]
            /\ result' = [result EXCEPT ![Top] =
                             [kind |-> "returned", list |-> completed_tasks[Top]]]
       ELSE /\ wt' = [wt EXCEPT ![Top].pc = "sleep"]
            /\ UNCHANGED result
    /\ UNCHANGED <<parallelism, handles, taskqueue, tasks, completed_tasks, mr,
                   raised, task_complete_event, limiter,
                   pump, emitter, upload>>

\* self.task_complete_event.wait(interval) returns: at once if the event is
\* set, when it gets set, or when the interval is over.
EventWait ==
    /\ wt[Top].pc = "sleep"
    /\ wt' = [wt EXCEPT ![Top].pc = "clear"]
    /\ UNCHANGED <<parallelism, handles, taskqueue, tasks, completed_tasks,
                   result, mr, raised, others>>

\* self.task_complete_event.clear(), and back to the top of the loop.
EventClear ==
    /\ wt[Top].pc = "clear"
    /\ task_complete_event' = FALSE
    /\ wt' = [wt EXCEPT ![Top].pc = "top"]
    /\ UNCHANGED <<parallelism, handles, taskqueue, tasks, completed_tasks,
                   result, mr, raised, call, limiter,
                   pump, emitter, upload>>

\* ApplyResult._set, first half: the worker stores (_success, _value) and
\* calls the callback or error_callback that add_task gave to apply_async,
\* _set_task_complete_event.
SetTaskCompleteEvent(t) ==
    /\ handles[t].st = "Running"
    /\ handles[t].value = NoValue
    /\ BodyDone(t)
    /\ handles' = [handles EXCEPT ![t].value = Outcome(t).value]
    /\ task_complete_event' = TRUE
    /\ UNCHANGED <<parallelism, taskqueue, tasks, completed_tasks, wt, result,
                   mr, raised, call, limiter,
                   pump, emitter, upload>>

\* ApplyResult._set, second half: the handle's own event is set, which is
\* what ready() reads.
SetReady(t) ==
    /\ handles[t].st = "Running"
    /\ handles[t].value # NoValue
    /\ handles' = [handles EXCEPT ![t].st = Outcome(t).st]
    /\ mr' = IF mr.pc = "scan" /\ Outcome(t).st = "Failed"
             THEN [mr EXCEPT !.seen = @ \cup {Failed \cup {t}}]
             ELSE mr
    /\ UNCHANGED <<parallelism, taskqueue, tasks, completed_tasks, wt, result,
                   raised, others>>

\* parallel.add_task(fn, name=...) of a leaf callable.
LoopAddTask ==
    /\ CallerIdle
    /\ Len(tasks[Top]) < MaxLoopTasks
    /\ \E fn \in Callables : add_task(Top, fn, Len(tasks[Top]) + 1)
    /\ UNCHANGED <<parallelism, wt, mr, raised, others>>

\* parallel.wait(fail_fast=..., callback=..., max_wait=...)
LoopWait ==
    \E fail_fast \in BOOLEAN, max_wait \in 0..MaxMaxWait, callback \in BOOLEAN :
        wait(fail_fast, max_wait, callback)

LoopInit == InitPool({1, MaxLoopTasks})

LoopNext ==
    \/ LoopAddTask
    \/ LoopWait
    \/ TimePasses
    \/ TimeoutCheck
    \/ WaitTick
    \/ AfterTick
    \/ EventWait
    \/ EventClear
    \/ StartTask
    \/ \E t \in 1..Len(handles) : SetTaskCompleteEvent(t)
    \/ \E t \in 1..Len(handles) : SetReady(t)

LoopSpec == LoopInit /\ [][LoopNext]_vars

----------------------------------------------------------------------------
(* ErrorsSpec: the calls that raise, wait() and maybe_raise(), on one      *)
(* ParallelRun                                                             *)

\* parallel.wait(fail_fast=..., max_wait=...)
ErrorsWait ==
    \E fail_fast \in BOOLEAN, max_wait \in 0..MaxMaxWait :
        wait(fail_fast, max_wait, FALSE)

ErrorsNext ==
    \/ LoopAddTask
    \/ ErrorsWait
    \/ TimePasses
    \/ TimeoutCheck
    \/ WaitTick
    \/ AfterTick
    \/ EventWait
    \/ EventClear
    \/ MaybeRaiseBegin
    \/ MaybeRaisePoll
    \/ MaybeRaiseEnd
    \/ StartTask
    \/ \E t \in 1..Len(handles) : SetTaskCompleteEvent(t)
    \/ \E t \in 1..Len(handles) : SetReady(t)

ErrorsSpec == LoopInit /\ [][ErrorsNext]_vars

----------------------------------------------------------------------------
(* Properties of LoopSpec *)

\* The step in which wait() raises TimeoutError.
TimeoutStep == result[Top].kind = "none" /\ result'[Top].kind = "TimeoutError"

\* C12: the step in which wait(max_wait=m) raises TimeoutError changes no
\* handle, not the pool's queue and nothing of the registry, so neither the
\* exceptions view nor what maybe_raise() would do; no task is ever Failed
\* but one whose callable raised; and a wait() that follows a timeout on
\* the same registry and returns does so with every handle terminal.
C12_TimeoutChangesNothing ==
    /\ [][TimeoutStep =>
            /\ UNCHANGED <<handles, taskqueue, tasks, completed_tasks,
                           task_complete_event, parallelism>>
            /\ exceptions(Top)' = exceptions(Top)
            /\ Failed' = Failed
            /\ call.max_wait # 0 /\ call.waited_for > call.max_wait
         ]_vars
    /\ [](\A t \in Failed : handles[t].fn = "agh")
    /\ []((result[Top].kind = "returned" /\ call.before = "TimeoutError")
            => /\ \A t \in Range(tasks[Top]) : ready(t)
               /\ result[Top].list = Range(tasks[Top]))

\* A wait() raised TimeoutError while a task was running, and the wait()
\* after it has returned with that task Succeeded.
C12_Witness ==
    /\ result[Top].kind = "returned"
    /\ call.before = "TimeoutError"
    /\ \E t \in Range(tasks[Top]) : handles[t].st = "Succeeded"
    /\ Len(tasks[Top]) = MaxLoopTasks

\* The step in which a wait() call ends, by returning or by raising.
WaitEnds == wt[Top].pc # "idle" /\ wt'[Top].pc = "idle"

\* C13 as claimed: a wait() call given a callback has called it, with the
\* ParallelRun, by the time it ends.
C13_CalledBeforeWaitEnds ==
    [][(WaitEnds /\ call.callback) => Top \in call'.called]_vars

\* C13 as amended: a wait() call given a callback has called it, with the
\* ParallelRun, by the time it returns, also with no task and with every
\* task ready at the first scan (it is called after every scan that ends
\* without raising, before the loop sleeps or returns); a wait() that
\* raises may end without having called it, and without a callback nothing
\* is called.
C13_CalledBeforeWaitReturns ==
    [][/\ (WaitEnds /\ call.callback /\ result'[Top].kind = "returned")
            => call'.called = {Top}
       /\ (call.callback /\ wt'[Top].pc \in {"sleep", "clear"})
            => call'.called = {Top}
       /\ ~call.callback => call'.called = {}
      ]_vars

\* wait(callback=cb) on a ParallelRun without tasks has returned and has
\* called cb.
C13_Witness ==
    /\ result[Top].kind = "returned"
    /\ tasks[Top] = <<>>
    /\ call.callback
    /\ call.called = {Top}

\* C18: while the loop of wait() is between polling a task as not ready and
\* the end of the sleep that follows, a task it polled as not ready that
\* has become ready since has left task_complete_event set, so that the
\* sleep ends at once and another scan follows.
C18_NoLostWakeup ==
    (wt[Top].pc \in {"scan", "sleep"} /\ \E t \in wt[Top].notReady : ready(t))
        => task_complete_event

----------------------------------------------------------------------------
(* Properties of ErrorsSpec *)

\* C14: wait() ends by returning, by TaskFailed or by TimeoutError, never
\* by TasksFailed; by TaskFailed only if fail_fast, by TimeoutError only
\* if max_wait is set, so that wait(fail_fast=False) without max_wait only
\* returns; maybe_raise() ends by returning or by TasksFailed.
C14_DisjointOrigins ==
    /\ result[Top].kind \in {"none", "returned", "TaskFailed", "TimeoutError"}
    /\ result[Top].kind = "TaskFailed" => wt[Top].fail_fast
    /\ result[Top].kind = "TimeoutError" => call.max_wait # 0
    /\ (wt[Top].pc = "idle" /\ result[Top].kind # "none" /\ ~wt[Top].fail_fast)
          => result[Top].kind \in {"returned", "TimeoutError"}
    /\ raised.kind \in {"none", "returned", "TasksFailed"}

\* wait(fail_fast=False) has returned with two Failed handles, and
\* maybe_raise() has raised TasksFailed for them.
C14_Witness ==
    /\ result[Top].kind = "returned"
    /\ ~wt[Top].fail_fast
    /\ Cardinality(Failed) = MaxLoopTasks
    /\ raised.kind = "TasksFailed"

----------------------------------------------------------------------------
(* Handles and names: properties of Spec *)

\* The states of a handle, in the order it goes through them.
Forward ==
    {<<"Pending", "Pending">>, <<"Pending", "Running">>, <<"Running", "Running">>,
     <<"Running", "Succeeded">>, <<"Running", "Failed">>,
     <<"Succeeded", "Succeeded">>, <<"Failed", "Failed">>}

\* C15: a handle is made Pending and without value, goes from Pending to
\* Running and from Running to Succeeded or Failed and never back; a ready
\* handle stays as it is, state and value; name and callable never change;
\* the value is written in the one step that ends the task.
C15_HandleMovesForward ==
    [][/\ Len(handles') >= Len(handles)
       /\ \A t \in (Len(handles) + 1)..Len(handles') :
             handles'[t].st = "Pending" /\ handles'[t].value = NoValue
       /\ \A t \in 1..Len(handles) :
             /\ <<handles[t].st, handles'[t].st>> \in Forward
             /\ handles'[t].name = handles[t].name
             /\ handles'[t].fn = handles[t].fn
             /\ ready(t) => handles'[t] = handles[t]
             /\ handles'[t].value # handles[t].value
                   => /\ handles[t].st = "Running"
                      /\ handles'[t].st \in {"Succeeded", "Failed"}
                      /\ handles[t].value = NoValue
      ]_vars

\* A handle has ended Succeeded with its result and another Failed with its
\* error.
C15_Witness ==
    /\ \E t \in Handles : handles[t].st = "Succeeded" /\ handles[t].value = Ret(t)
    /\ \E t \in Handles : handles[t].st = "Failed" /\ handles[t].value = Err(t)

\* The handles of the ParallelRun that are Failed.
FailedTasks == {t \in Range(tasks[Top]) : ready(t) /\ ~success(t)}

\* C17: add_task takes a name already given to another handle, and each
\* view maps a name to the value of the handle added last among the handles
\* of that name that the view keeps (the ready ones for return_values, the
\* Failed ones for exceptions).
C17_LastWriteWins ==
    /\ \A t \in ReadyTasks :
          (\A u \in ReadyTasks : handles[u].name = handles[t].name => u <= t)
              => return_values(Top)[handles[t].name] = handles[t].value
    /\ \A t \in FailedTasks :
          (\A u \in FailedTasks : handles[u].name = handles[t].name => u <= t)
              => exceptions(Top)[handles[t].name] = handles[t].value
    /\ Cardinality(DOMAIN return_values(Top)) =
          Cardinality({handles[t].name : t \in ReadyTasks})
    /\ Cardinality(DOMAIN exceptions(Top)) =
          Cardinality({handles[t].name : t \in FailedTasks})

\* Three handles of one name are ready, two of them Failed: return_values
\* shows the last of the three and exceptions the last of the two.
C17_Witness ==
    \E t, u, v \in ReadyTasks :
        /\ t < u /\ u < v
        /\ handles[t].name = handles[u].name
        /\ handles[u].name = handles[v].name
        /\ handles[t].st = "Failed"
        /\ handles[u].st = "Failed"
        /\ handles[v].st = "Succeeded"
        /\ return_values(Top)[handles[t].name] = Ret(v)
        /\ exceptions(Top)[handles[t].name] = Err(u)

----------------------------------------------------------------------------
(* NameSpec: the name add_task gives a handle *)

\* add_task(task) without name: name=None.
NoName == "None"

\* The name arguments tried.
NameArgs == {NoName, "blerg"}

\* The callables tried: a function, which has a __name__, and
\* functools.partial(function), which has none.
TaskObjects == [fn : Callables, has_name : BOOLEAN]

\* str(task)
str(task) ==
    IF task.has_name THEN "<function " \o task.fn \o ">"
    ELSE "functools.partial(<function " \o task.fn \o ">)"

\* getattr(task, '__name__' or None): the second argument is '__name__', and
\* there is no default, so a task without __name__ raises AttributeError.
getattr_name(task) ==
    IF task.has_name THEN [raises |-> FALSE, value |-> task.fn]
    ELSE [raises |-> TRUE, value |-> "AttributeError"]

\* if not name: name = (getattr(task, '__name__' or None) or str(task))
ResolveName(name, task) ==
    IF name # NoName THEN [raises |-> FALSE, value |-> name]
    ELSE IF getattr_name(task).raises THEN getattr_name(task)
    ELSE IF getattr_name(task).value # ""
    THEN [raises |-> FALSE, value |-> getattr_name(task).value]
    ELSE [raises |-> FALSE, value |-> str(task)]

\* parallel.add_task(task, name=name): the whole of add_task.
AddTaskCall(name, task) ==
    IF ResolveName(name, task).raises
    THEN /\ result' = [result EXCEPT ![Top] =
                          [kind |-> ResolveName(name, task).value]]
         /\ UNCHANGED <<handles, taskqueue, tasks, completed_tasks>>
    ELSE add_task(Top, task.fn, ResolveName(name, task).value)

NamedAddTask ==
    /\ CallerIdle
    /\ Len(tasks[Top]) < MaxTasks
    /\ \E name \in NameArgs, task \in TaskObjects : AddTaskCall(name, task)
    /\ UNCHANGED <<parallelism, wt, mr, raised, others>>

NameNext ==
    \/ NamedAddTask
    \/ StartTask
    \/ \E t \in 1..Len(handles) : FinishTask(t)

NameSpec == Init /\ [][NameNext]_vars

\* C16: add_task(task, name=name) does not raise, and the handle it makes
\* has the name given, or without one the callable's __name__ if it has
\* one, or the callable's textual form str(task) if it has none.
C16_NameFallbackNeverFails ==
    [][\A name \in NameArgs, task \in TaskObjects :
          (CallerIdle /\ AddTaskCall(name, task))
              => /\ result'[Top].kind = "none"
                 /\ Len(handles') = Len(handles) + 1
                 /\ handles'[Len(handles')].name =
                       IF name # NoName THEN name
                       ELSE IF task.has_name THEN task.fn
                       ELSE str(task)
      ]_vars

----------------------------------------------------------------------------
(* hai.rate_limiter.RateLimiter: a token bucket.  Times are whole units of  *)
(* the clock and the allowance is kept multiplied by the period, so that   *)
(* time_passed * rate / period is a whole number: allowance < 1 reads      *)
(* allowance < period here, and one token is `period`.                     *)

\* Largest Rate.rate tried, in tokens per period.
MaxRate == 2

\* Largest Rate.period tried, in units of the clock.
MaxPeriod == 2

\* Latest reading of the clock tried.
MaxClock == 3

\* tick() calls made on the RateLimiter.
MaxTicks == 5

\* The variables of the ParallelRun and of the other objects, which a
\* RateLimiter leaves alone.
pool == <<parallelism, handles, taskqueue, tasks, completed_tasks, wt, result,
          mr, raised, task_complete_event, call, pump, emitter, upload>>

\* Python's None, for last_check, allowance and current_state.
None == "None"

\* STATE_CHANGE_MAP, keyed by (did change, current state).
STATE_CHANGE_MAP ==
    [k \in BOOLEAN \X BOOLEAN |->
        IF k = <<TRUE, TRUE>> THEN "BECAME_OPEN"
        ELSE IF k = <<TRUE, FALSE>> THEN "BECAME_THROTTLED"
        ELSE IF k = <<FALSE, TRUE>> THEN "STILL_OPEN"
        ELSE "STILL_THROTTLED"]

\* TickResult(state, did_change), with the time of the tick.
TickResult(state, did_change, now) ==
    [state |-> state, did_change |-> did_change,
     state_change |-> STATE_CHANGE_MAP[<<did_change, state>>], at |-> now]

\* current_state as stored: True, False or None.
Stored(state) == IF state THEN "True" ELSE "False"

Min(a, b) == IF a <= b THEN a ELSE b

\* RateLimiter(Rate(rate, period), allow_underflow).  now is the reading of
\* RateLimiter.clock, ticks the number of tick() calls made, log the
\* TickResults returned since construction or the last reset() and
\* reset_from the allowance that the last reset() discarded, if any.
RateLimiter(rate, period, allow_underflow) ==
    [kind |-> "RateLimiter", rate |-> rate, period |-> period,
     allow_underflow |-> allow_underflow,
     last_check |-> None, allowance |-> None, current_state |-> None,
     now |-> 0, ticks |-> 0, log |-> <<>>, reset_from |-> <<>>]

\* RateLimiter._tick on limiter l: the fields it writes and what it returns.
\* The variant takes a token from a throttled limiter whatever allow_underflow
\* says.
_tick_always_underflow(l) ==
    LET fresh == l.current_state = None
        last_check == IF fresh THEN l.now ELSE l.last_check
        allowance == IF fresh THEN l.rate * l.period ELSE l.allowance
        time_passed == l.now - last_check
        refilled == Min(allowance + time_passed * l.rate, l.rate * l.period)
        throttled == refilled < l.period
    IN  [last_check |-> l.now,
         allowance |-> refilled - l.period,
         new_state |-> ~throttled]

\* The variant without the cap at rate: idle time adds up.
_tick_uncapped(l) ==
    LET fresh == l.current_state = None
        last_check == IF fresh THEN l.now ELSE l.last_check
        allowance == IF fresh THEN l.rate * l.period ELSE l.allowance
        time_passed == l.now - last_check
        refilled == allowance + time_passed * l.rate
        throttled == refilled < l.period
    IN  [last_check |-> l.now,
         allowance |-> IF l.allow_underflow \/ ~throttled
                       THEN refilled - l.period ELSE refilled,
         new_state |-> ~throttled]

_tick(l) ==
    LET fresh == l.current_state = None
        last_check == IF fresh THEN l.now ELSE l.last_check
        allowance == IF fresh THEN l.rate * l.period ELSE l.allowance
        time_passed == l.now - last_check
        refilled == Min(allowance + time_passed * l.rate, l.rate * l.period)
        throttled == refilled < l.period
    IN  [last_check |-> l.now,
         allowance |-> IF l.allow_underflow \/ ~throttled
                       THEN refilled - l.period ELSE refilled,
         new_state |-> ~throttled]

\* RateLimiter.tick.  The variant compares the first state with None.
tick_first_is_change ==
    /\ limiter.kind = "RateLimiter"
    /\ limiter.ticks < MaxTicks
    /\ LET t == _tick(limiter)
           did_change == Stored(t.new_state) # limiter.current_state
       IN  limiter' = [limiter EXCEPT
                          !.last_check = t.last_check,
                          !.allowance = t.allowance,
                          !.current_state = Stored(t.new_state),
                          !.ticks = @ + 1,
                          !.log = Append(@, TickResult(t.new_state, did_change,
                                                       limiter.now))]
    /\ UNCHANGED pool

tick ==
    /\ limiter.kind = "RateLimiter"
    /\ limiter.ticks < MaxTicks
    /\ LET t == _tick(limiter)
           current_state == IF limiter.current_state = None
                            THEN Stored(t.new_state) ELSE limiter.current_state
           did_change == Stored(t.new_state) # current_state
       IN  limiter' = [limiter EXCEPT
                          !.last_check = t.last_check,
                          !.allowance = t.allowance,
                          !.current_state = Stored(t.new_state),
                          !.ticks = @ + 1,
                          !.log = Append(@, TickResult(t.new_state, did_change,
                                                       limiter.now))]
    /\ UNCHANGED pool

\* RateLimiter.reset.  The variant forgets the state and the time of the last
\* check and keeps the allowance, emptied.
reset_keeping_allowance ==
    /\ limiter.kind = "RateLimiter"
    /\ limiter.current_state # None
    /\ limiter' = [limiter EXCEPT !.last_check = limiter.now, !.allowance = 0,
                                  !.current_state = "False", !.log = <<>>,
                                  !.reset_from = <<limiter.allowance>>]
    /\ UNCHANGED pool

reset ==
    /\ limiter.kind = "RateLimiter"
    /\ limiter.current_state # None
    /\ limiter' = [limiter EXCEPT !.last_check = None, !.allowance = None,
                                  !.current_state = None, !.log = <<>>,
                                  !.reset_from = <<limiter.allowance>>]
    /\ UNCHANGED pool

\* The clock goes on.
ClockAdvances ==
    /\ limiter.kind = "RateLimiter"
    /\ limiter.now < MaxClock
    /\ limiter' = [limiter EXCEPT !.now = @ + 1]
    /\ UNCHANGED pool

\* RateLimiter(Rate(rate, period), allow_underflow=...)
NewRateLimiter ==
    /\ limiter = NoLimiter
    /\ \E rate \in 0..MaxRate, period \in 1..MaxPeriod, allow_underflow \in BOOLEAN :
          limiter' = RateLimiter(rate, period, allow_underflow)
    /\ UNCHANGED pool

RateNext ==
    \/ NewRateLimiter
    \/ tick
    \/ reset
    \/ ClockAdvances

RateSpec == InitPool({1}) /\ [][RateNext]_vars

----------------------------------------------------------------------------
(* Properties of RateSpec.                                                  *)

\* The ticks so far were all made at the time of the first one.
Burst(k) == \A j \in 1..k : limiter.log[j].at = limiter.log[1].at

\* The first rate ticks of a burst are allowed, the next one becomes
\* throttled and the ones after it stay throttled.
BurstAllowsFirstN ==
    (limiter.kind = "RateLimiter" /\ limiter.rate >= 1) =>
        \A k \in 1..Len(limiter.log) :
            Burst(k) =>
                limiter.log[k].state_change =
                    IF k <= limiter.rate THEN "STILL_OPEN"
                    ELSE IF k = limiter.rate + 1 THEN "BECAME_THROTTLED"
                    ELSE "STILL_THROTTLED"

\* The tick that last changed the state.
LastChange ==
    CHOOSE j \in 1..Len(limiter.log) :
        /\ limiter.log[j].did_change
        /\ \A i \in (j+1)..Len(limiter.log) : ~limiter.log[i].did_change

\* A tick() of a throttled limiter, made once a token's worth of time has
\* passed since the limiter became throttled.
TickAfterRefill ==
    /\ limiter.kind = "RateLimiter"
    /\ limiter.rate >= 1
    /\ limiter.current_state = "False"
    /\ limiter'.ticks = limiter.ticks + 1
    /\ (limiter.now - limiter.log[LastChange].at) * limiter.rate >= limiter.period

\* The tick reported BECAME_OPEN.
Reopened ==
    LET r == limiter'.log[Len(limiter'.log)]
    IN  r.state /\ r.state_change = "BECAME_OPEN"

\* C19: with an integer rate N >= 1, ticks made with no time passing are
\* allowed N times (STILL_OPEN), the next one reports BECAME_THROTTLED and
\* the ones after it STILL_THROTTLED; once the time that refills one token
\* has passed, the next tick is allowed and reports BECAME_OPEN.
C19_BurstThenReopen ==
    /\ []BurstAllowsFirstN
    /\ [][TickAfterRefill => Reopened]_vars

\* C19, for limiters that do not allow underflow: the burst is as above for
\* every limiter, and a limiter made with allow_underflow false is open
\* again at the first tick after one token's refill time.
C19_BurstThenReopenNoUnderflow ==
    /\ []BurstAllowsFirstN
    /\ [][(TickAfterRefill /\ ~limiter.allow_underflow) => Reopened]_vars

\* A burst of rate + 2 ticks was throttled and the tick after the refill
\* reported BECAME_OPEN.
C19_Witness ==
    /\ limiter.kind = "RateLimiter"
    /\ limiter.rate >= 1
    /\ ~limiter.allow_underflow
    /\ Len(limiter.log) = limiter.rate + 3
    /\ Burst(limiter.rate + 2)
    /\ limiter.log[limiter.rate + 2].state_change = "STILL_THROTTLED"
    /\ limiter.log[limiter.rate + 3].state_change = "BECAME_OPEN"

\* C20: a tick reports a change exactly when its state differs from the
\* state of the tick before it since construction or the last reset, the
\* first such tick reports none, and state_change is the entry of
\* STATE_CHANGE_MAP for (did_change, state).
C20_DidChangeIffStateDiffers ==
    limiter.kind = "RateLimiter" =>
        \A k \in 1..Len(limiter.log) :
            LET r == limiter.log[k]
            IN  /\ r.did_change = (k > 1 /\ r.state # limiter.log[k-1].state)
                /\ r.state_change =
                       IF r.did_change
                       THEN (IF r.state THEN "BECAME_OPEN" ELSE "BECAME_THROTTLED")
                       ELSE (IF r.state THEN "STILL_OPEN" ELSE "STILL_THROTTLED")

\* After a reset() of a limiter in the other state the first tick reported no
\* change and a later one did.
C20_Witness ==
    /\ limiter.kind = "RateLimiter"
    /\ limiter.ticks > Len(limiter.log)
    /\ Len(limiter.log) >= 2
    /\ ~limiter.log[1].did_change
    /\ limiter.log[Len(limiter.log)].did_change

\* The RateLimiter fields and the TickResult of the first tick() of a limiter
\* constructed like l, made at the time l.now.
FirstTickOfNew(l) ==
    LET new == [RateLimiter(l.rate, l.period, l.allow_underflow)
                    EXCEPT !.now = l.now]
        t == _tick(new)
    IN  [last_check |-> t.last_check, allowance |-> t.allowance,
         current_state |-> Stored(t.new_state),
         result |-> TickResult(t.new_state, FALSE, l.now)]

\* A tick() that is the first one after a reset().
TickAfterReset ==
    /\ limiter.kind = "RateLimiter"
    /\ limiter.rate >= 1
    /\ limiter.reset_from # <<>>
    /\ limiter.log = <<>>
    /\ limiter'.ticks = limiter.ticks + 1

\* C21: for rate >= 1 the first tick after reset() is allowed, whatever the
\* limiter's state and allowance were, and leaves the limiter and its result
\* as the first tick of a newly constructed limiter does.
C21_ResetReopens ==
    [][TickAfterReset =>
          /\ limiter'.log[1].state
          /\ limiter'.log[1].state_change = "STILL_OPEN"
          /\ LET new == FirstTickOfNew(limiter)
             IN  /\ limiter'.log = <<new.result>>
                 /\ limiter'.last_check = new.last_check
                 /\ limiter'.allowance = new.allowance
                 /\ limiter'.current_state = new.current_state]_vars

\* A throttled limiter with a negative allowance was reset and its next tick
\* was allowed.
C21_Witness ==
    /\ limiter.kind = "RateLimiter"
    /\ limiter.rate >= 1
    /\ limiter.reset_from # <<>>
    /\ limiter.reset_from[1] < 0
    /\ Len(limiter.log) = 1
    /\ limiter.log[1].state

----------------------------------------------------------------------------
(* hai.rate_limiter.MultiRateLimiter: RateLimiters in a map keyed by name.  *)

\* The names ticked and reset.
Names == {"foo", "bar"}

\* Rate(rate, period)
Rate(rate, period) == [rate |-> rate, period |-> period]

\* RateLimiter.tick as a function of the limiter l: l after the tick, its
\* log holding the TickResult returned.
ticked(l) ==
    LET t == _tick(l)
        current_state == IF l.current_state = None
                         THEN Stored(t.new_state) ELSE l.current_state
        did_change == Stored(t.new_state) # current_state
    IN  [l EXCEPT !.last_check = t.last_check,
                  !.allowance = t.allowance,
                  !.current_state = Stored(t.new_state),
                  !.ticks = @ + 1,
                  !.log = Append(@, TickResult(t.new_state, did_change, l.now))]

\* MultiRateLimiter(default_limit, per_name_limits).  made counts, for each
\* name, the limiters created since construction or the last reset(name),
\* resets the limiters that reset(name) deleted; last is the latest call
\* with what it returned.
MultiRateLimiter(default_limit, per_name_limits) ==
    [kind |-> "MultiRateLimiter",
     limiters |-> <<>>,
     default_limit |-> default_limit,
     per_name_limits |-> per_name_limits,
     now |-> 0, ticks |-> 0,
     made |-> [n \in Names |-> 0],
     resets |-> [n \in Names |-> 0],
     last |-> [op |-> "new", name |-> None, ret |-> None]]

\* MultiRateLimiter.get_rate
get_rate(m, name) ==
    IF name \in DOMAIN m.per_name_limits THEN m.per_name_limits[name]
    ELSE m.default_limit

\* MultiRateLimiter.get_limiter: the map of limiters after the call.  The
\* variant makes a new limiter at every call.
get_limiter_always_new(m, name) ==
    LET rate == get_rate(m, name)
    IN  [n \in DOMAIN m.limiters \cup {name} |->
            IF n = name
            THEN RateLimiter(rate.rate, rate.period, FALSE)
            ELSE m.limiters[n]]

get_limiter(m, name) ==
    IF name \in DOMAIN m.limiters THEN m.limiters
    ELSE LET rate == get_rate(m, name)
         IN  [n \in DOMAIN m.limiters \cup {name} |->
                 IF n = name
                 THEN RateLimiter(rate.rate, rate.period, FALSE)
                 ELSE m.limiters[n]]

\* MultiRateLimiter.tick(name)
MultiTick(name) ==
    /\ limiter.kind = "MultiRateLimiter"
    /\ limiter.ticks < MaxTicks
    /\ LET limiters == get_limiter(limiter, name)
           l == ticked([limiters[name] EXCEPT !.now = limiter.now])
       IN  limiter' = [limiter EXCEPT
                          !.limiters = [limiters EXCEPT ![name] = l],
                          !.ticks = @ + 1,
                          !.made[name] =
                              IF limiters[name].ticks = 0 THEN @ + 1 ELSE @,
                          !.last = [op |-> "tick", name |-> name,
                                    ret |-> l.log[Len(l.log)]]]
    /\ UNCHANGED pool

\* MultiRateLimiter.reset(name)
MultiReset(name) ==
    /\ limiter.kind = "MultiRateLimiter"
    /\ limiter' = [limiter EXCEPT
                      !.limiters = [n \in DOMAIN limiter.limiters \ {name} |->
                                       limiter.limiters[n]],
                      !.made[name] = 0,
                      !.resets[name] =
                          IF name \in DOMAIN limiter.limiters THEN @ + 1 ELSE @,
                      !.last = [op |-> "reset", name |-> name,
                                ret |-> name \in DOMAIN limiter.limiters]]
    /\ UNCHANGED pool

\* The clock of the RateLimiters goes on.
MultiClockAdvances ==
    /\ limiter.kind = "MultiRateLimiter"
    /\ limiter.now < MaxClock
    /\ limiter' = [limiter EXCEPT !.now = @ + 1]
    /\ UNCHANGED pool

\* MultiRateLimiter(default_limit=Rate(..), per_name_limits={..})
NewMultiRateLimiter ==
    /\ limiter = NoLimiter
    /\ \E rate \in 0..MaxRate, period \in 1..MaxPeriod, named \in SUBSET {"foo"} :
          limiter' = MultiRateLimiter(Rate(rate, period),
                                      [n \in named |-> Rate(MaxRate, 1)])
    /\ UNCHANGED pool

MultiNext ==
    \/ NewMultiRateLimiter
    \/ \E name \in Names : MultiTick(name)
    \/ \E name \in Names : MultiReset(name)
    \/ MultiClockAdvances

MultiSpec == InitPool({1}) /\ [][MultiNext]_vars

----------------------------------------------------------------------------
(* Properties of MultiSpec.                                                 *)

\* The step is a call on the given name.
CallOn(name) ==
    /\ limiter.kind = "MultiRateLimiter"
    /\ limiter'.last # limiter.last \/ limiter'.ticks # limiter.ticks
        \/ limiter'.limiters # limiter.limiters
    /\ limiter'.last.name = name

\* The limiter of the name is the same, or as absent, after the step.
SameLimiter(name) ==
    /\ (name \in DOMAIN limiter'.limiters) = (name \in DOMAIN limiter.limiters)
    /\ name \in DOMAIN limiter.limiters =>
           limiter'.limiters[name] = limiter.limiters[name]

\* tick(name) and reset(name) leave the limiters of the other names alone.
OtherNamesUntouched ==
    limiter.kind = "MultiRateLimiter" =>
        \A name \in Names : ~CallOn(name) => SameLimiter(name)

\* Each name has had at most one limiter since its last reset, of the rate of
\* the name if it has one and of the default rate if not.
MadeOncePerName ==
    limiter.kind = "MultiRateLimiter" =>
        \A name \in Names :
            /\ limiter.made[name] <= 1
            /\ (name \in DOMAIN limiter.limiters) = (limiter.made[name] = 1)
            /\ name \in DOMAIN limiter.limiters =>
                   LET l == limiter.limiters[name]
                       rate == IF name \in DOMAIN limiter.per_name_limits
                               THEN limiter.per_name_limits[name]
                               ELSE limiter.default_limit
                   IN  /\ l.rate = rate.rate
                       /\ l.period = rate.period
                       /\ ~l.allow_underflow

\* reset(name) returns True exactly when the name had a limiter.
ResetReturnsFound ==
    \A name \in Names :
        (CallOn(name) /\ limiter'.last.op = "reset") =>
            /\ limiter'.last.ret = (name \in DOMAIN limiter.limiters)
            /\ name \notin DOMAIN limiter'.limiters

\* A tick(name) that follows a reset(name) of an existing limiter is the
\* first tick of a new limiter: no change reported, allowed if the rate is
\* at least one.
TickAfterMultiReset ==
    \A name \in Names :
        (/\ CallOn(name)
         /\ limiter'.last.op = "tick"
         /\ limiter.last.op = "reset" /\ limiter.last.name = name
         /\ limiter.last.ret) =>
            LET l == limiter'.limiters[name]
                new == FirstTickOfNew([l EXCEPT !.now = limiter.now])
            IN  /\ l.log = <<new.result>>
                /\ limiter'.last.ret = new.result
                /\ l.allowance = new.allowance
                /\ l.current_state = new.current_state
                /\ l.rate >= 1 => new.result.state_change = "STILL_OPEN"

\* C22: the limiters of distinct names are independent; a name gets at most
\* one limiter, of its own rate or else the default one, until it is reset;
\* reset(name) returns True exactly when the name had a limiter, and the
\* next tick(name) starts from a fresh limiter.
C22_NamesIndependent ==
    /\ []MadeOncePerName
    /\ [][OtherNamesUntouched]_vars
    /\ [][ResetReturnsFound]_vars
    /\ [][TickAfterMultiReset]_vars

\* Both names were throttled, foo was reset and ticked open again while bar
\* is still throttled.
C22_Witness ==
    /\ limiter.kind = "MultiRateLimiter"
    /\ limiter.last.op = "tick" /\ limiter.last.name = "foo"
    /\ limiter.last.ret.state
    /\ limiter.limiters["foo"].ticks = 1
    /\ limiter.resets["foo"] = 1
    /\ limiter.resets["bar"] = 0
    /\ "bar" \in DOMAIN limiter.limiters
    /\ limiter.limiters["bar"].current_state = "False"

----------------------------------------------------------------------------
(* hai.pipe_pump: BasePipePump and LinePipePump.  Bytes are sequences of the *)
(* symbols of Bytes; they are fed with feed(), no file object is           *)
(* registered.                                                             *)

\* feed() calls made on a pump.
MaxFeeds == 3

\* The keys registered on a pump, in the order of registration.
Keys == <<"stdout", "stderr">>

\* The byte values fed: one of content, a carriage return and a newline.
Bytes == {"a", "CR", "LF"}

\* The data of one feed() call: up to two bytes.
Data == {<<>>} \cup {<<b>> : b \in Bytes} \cup {<<b, c>> : b, c \in Bytes}

\* The handlers added to a pump, in the order they were added.
Handlers == <<"h1", "h2">>

\* A pump after __init__, the handlers added and the keys registered
\* (register sets buffers[key] = b"").  calls is every handler call made so
\* far; fed is the data fed to each key and feeds the number of feed() calls.
PipePump(kind, separator, chunk_size) ==
    [kind |-> kind, separator |-> separator, chunk_size |-> chunk_size,
     buffers |-> [k \in {Keys[i] : i \in 1..Len(Keys)} |-> <<>>],
     lines |-> <<>>, line_state |-> <<>>,
     calls |-> <<>>,
     fed |-> [k \in {Keys[i] : i \in 1..Len(Keys)} |-> <<>>],
     feeds |-> 0, closed |-> FALSE]

\* separator in buffer / buffer.partition: where the first separator
\* starts, 0 if there is none.
Find(buffer, separator) ==
    LET at == {i \in 1..(Len(buffer) - Len(separator) + 1) :
                  SubSeq(buffer, i, i + Len(separator) - 1) = separator}
    IN  IF at = {} THEN 0 ELSE CHOOSE i \in at : \A j \in at : i <= j

RECURSIVE CallHandlers(_, _, _)
\* for handler in handlers: handler(...), from the h-th handler on.
CallHandlers(p, h, args) ==
    IF h > Len(Handlers) THEN p
    ELSE CallHandlers([p EXCEPT !.calls = Append(@, [handler |-> Handlers[h]] @@ args)],
                      h + 1, args)

\* LinePipePump.add_line.  The variant adds the line only if the key has no
\* such line yet.
add_line_once(p, key, line) ==
    LET line_list == IF key \in DOMAIN p.lines THEN p.lines[key] ELSE <<>>
        appended == IF \E i \in 1..Len(line_list) : line_list[i] = line
                    THEN line_list ELSE Append(line_list, line)
    IN  CallHandlers([p EXCEPT !.lines = (key :> appended) @@ @],
                     1, [key |-> key, lines |-> appended])

add_line(p, key, line) ==
    LET line_list == IF key \in DOMAIN p.lines THEN p.lines[key] ELSE <<>>
        appended == Append(line_list, line)
    IN  CallHandlers([p EXCEPT !.lines = (key :> appended) @@ @],
                     1, [key |-> key, lines |-> appended])

RECURSIVE LinePipePump_process_buffer(_, _, _)
\* LinePipePump._process_buffer: the pump after the lines were added, with
\* what is left of the buffer in buffers[key].
LinePipePump_process_buffer(p, key, buffer) ==
    LET i == Find(buffer, p.separator)
    IN  IF i = 0 THEN [p EXCEPT !.buffers[key] = buffer]
        ELSE LinePipePump_process_buffer(
                 add_line(p, key, SubSeq(buffer, 1, i - 1)), key,
                 SubSeq(buffer, i + Len(p.separator), Len(buffer)))

RECURSIVE LinePipePump_flush(_, _)
\* LinePipePump.close: for key, buffer in self.buffers.items(), from the
\* i-th key on.
LinePipePump_flush(p, i) ==
    IF i > Len(Keys) THEN p
    ELSE LinePipePump_flush(
             IF p.buffers[Keys[i]] # <<>>
             THEN add_line(p, Keys[i], p.buffers[Keys[i]]) ELSE p,
             i + 1)

\* Every variable but the pump.
notPump == <<parallelism, handles, taskqueue, tasks, completed_tasks, wt,
             result, mr, raised, task_complete_event, call, limiter, emitter,
             upload>>

\* LinePipePump(separator), add_line_handler(..), register(key, None)
NewLinePipePump ==
    /\ pump = NoPump
    /\ \E separator \in {<<"LF">>, <<"CR", "LF">>} :
          pump' = PipePump("LinePipePump", separator, 0)
    /\ UNCHANGED notPump

\* BasePipePump.feed(key, data) on a LinePipePump
LineFeed(key, data) ==
    /\ pump.kind = "LinePipePump"
    /\ ~pump.closed
    /\ pump.feeds < MaxFeeds
    /\ LET buffered_data == pump.buffers[key]
           fed == [pump EXCEPT !.fed[key] = @ \o data, !.feeds = @ + 1]
       IN  pump' = IF data # <<>>
                   THEN LinePipePump_process_buffer(fed, key, buffered_data \o data)
                   ELSE [fed EXCEPT !.buffers[key] = buffered_data]
    /\ UNCHANGED notPump

\* LinePipePump.close()
LineClose ==
    /\ pump.kind = "LinePipePump"
    /\ ~pump.closed
    /\ pump' = [LinePipePump_flush(pump, 1) EXCEPT !.buffers = <<>>,
                                                  !.closed = TRUE]
    /\ UNCHANGED notPump

LineNext ==
    \/ NewLinePipePump
    \/ \E i \in 1..Len(Keys), data \in Data : LineFeed(Keys[i], data)
    \/ LineClose

LineSpec == InitPool({1}) /\ [][LineNext]_vars

----------------------------------------------------------------------------
(* Properties of LineSpec.                                                  *)

RECURSIVE StreamPieces(_, _)
\* The stream cut at each separator, from the left: the pieces between the
\* separators, the last one being what follows the last separator.
StreamPieces(stream, separator) ==
    LET i == Find(stream, separator)
    IN  IF i = 0 THEN <<stream>>
        ELSE <<SubSeq(stream, 1, i - 1)>>
             \o StreamPieces(SubSeq(stream, i + Len(separator), Len(stream)),
                             separator)

\* The lines added for the key so far.
LinesOf(key) == IF key \in DOMAIN pump.lines THEN pump.lines[key] ELSE <<>>

\* The calls of one handler for one key, in order.
CallsOf(handler, key) ==
    SelectSeq(pump.calls, LAMBDA c : c.handler = handler /\ c.key = key)

\* C23: whatever the division of a key's stream into feed() calls, the
\* lines added for the key are the pieces of the stream that a separator
\* ends, the rest is kept in the buffer and added as one last line by
\* close() only if it is not empty, and each handler was called once per
\* added line, in order, with the key and the list of lines.
C23_LinesAreStreamSplit ==
    pump.kind = "LinePipePump" =>
        \A k \in 1..Len(Keys) :
            LET key == Keys[k]
                pieces == StreamPieces(pump.fed[key], pump.separator)
                ended == SubSeq(pieces, 1, Len(pieces) - 1)
                rest == pieces[Len(pieces)]
            IN  /\ LinesOf(key) = IF pump.closed /\ rest # <<>>
                                  THEN Append(ended, rest) ELSE ended
                /\ ~pump.closed => pump.buffers[key] = rest
                /\ \A h \in 1..Len(Handlers) :
                       LET calls == CallsOf(Handlers[h], key)
                       IN  /\ Len(calls) = Len(LinesOf(key))
                           /\ \A j \in 1..Len(calls) :
                                  calls[j].lines = SubSeq(LinesOf(key), 1, j)

\* Three feeds of two bytes cut a two-byte separator in two; the line
\* before it was added once and the rest at close().
C23_Witness ==
    /\ pump.kind = "LinePipePump"
    /\ pump.closed
    /\ pump.separator = <<"CR", "LF">>
    /\ pump.fed["stdout"] = <<"a", "CR", "LF", "a", "CR", "a">>
    /\ pump.lines["stdout"] = << <<"a">>, <<"a", "CR", "a">> >>

----------------------------------------------------------------------------
(* hai.pipe_pump.ChunkPipePump                                              *)

\* The chunk sizes tried.
ChunkSizes == {1, 2, 3}

\* ChunkPipePump._handle_chunk
_handle_chunk(p, key, chunk) ==
    CallHandlers(p, 1, [key |-> key, chunk |-> chunk])

\* ChunkPipePump._process_buffer.  The variant hands over the whole buffer
\* once it holds a chunk.
ChunkPipePump_process_buffer_greedy(p, key, buffer) ==
    IF Len(buffer) >= p.chunk_size
    THEN [_handle_chunk(p, key, buffer) EXCEPT !.buffers[key] = <<>>]
    ELSE [p EXCEPT !.buffers[key] = buffer]

RECURSIVE ChunkPipePump_process_buffer(_, _, _)
ChunkPipePump_process_buffer(p, key, buffer) ==
    IF Len(buffer) >= p.chunk_size
    THEN ChunkPipePump_process_buffer(
             _handle_chunk(p, key, SubSeq(buffer, 1, p.chunk_size)), key,
             SubSeq(buffer, p.chunk_size + 1, Len(buffer)))
    ELSE [p EXCEPT !.buffers[key] = buffer]

RECURSIVE ChunkPipePump_flush(_, _)
\* ChunkPipePump.close: for key, buffer in self.buffers.items(), from the
\* i-th key on.
ChunkPipePump_flush(p, i) ==
    IF i > Len(Keys) THEN p
    ELSE ChunkPipePump_flush(
             IF p.buffers[Keys[i]] # <<>>
             THEN _handle_chunk(p, Keys[i], p.buffers[Keys[i]]) ELSE p,
             i + 1)

\* ChunkPipePump(chunk_size), add_chunk_handler(..), register(key, None)
NewChunkPipePump ==
    /\ pump = NoPump
    /\ \E chunk_size \in ChunkSizes :
          pump' = PipePump("ChunkPipePump", <<>>, chunk_size)
    /\ UNCHANGED notPump

\* BasePipePump.feed(key, data) on a ChunkPipePump
ChunkFeed(key, data) ==
    /\ pump.kind = "ChunkPipePump"
    /\ ~pump.closed
    /\ pump.feeds < MaxFeeds
    /\ LET buffered_data == pump.buffers[key]
           fed == [pump EXCEPT !.fed[key] = @ \o data, !.feeds = @ + 1]
       IN  pump' = IF data # <<>>
                   THEN ChunkPipePump_process_buffer(fed, key, buffered_data \o data)
                   ELSE [fed EXCEPT !.buffers[key] = buffered_data]
    /\ UNCHANGED notPump

\* ChunkPipePump.close()
ChunkClose ==
    /\ pump.kind = "ChunkPipePump"
    /\ ~pump.closed
    /\ pump' = [ChunkPipePump_flush(pump, 1) EXCEPT !.buffers = <<>>,
                                                   !.closed = TRUE]
    /\ UNCHANGED notPump

ChunkNext ==
    \/ NewChunkPipePump
    \/ \E i \in 1..Len(Keys), data \in Data : ChunkFeed(Keys[i], data)
    \/ ChunkClose

ChunkSpec == InitPool({1}) /\ [][ChunkNext]_vars

----------------------------------------------------------------------------
(* Properties of ChunkSpec.                                                 *)

RECURSIVE Concat(_)
\* The chunks of a sequence of handler calls, joined in order.
Concat(calls) ==
    IF calls = <<>> THEN <<>> ELSE Head(calls).chunk \o Concat(Tail(calls))

\* C24: every chunk handed to a handler has chunk_size bytes, except that
\* the last one of a key may be shorter, not empty, and handed over by
\* close(); the chunks of a key joined in order are the bytes fed to it
\* (with the buffer, before close()), and the buffer kept after a feed is
\* shorter than chunk_size.
C24_ChunksPartitionStream ==
    pump.kind = "ChunkPipePump" =>
        \A k \in 1..Len(Keys), h \in 1..Len(Handlers) :
            LET key == Keys[k]
                calls == CallsOf(Handlers[h], key)
                short == {j \in 1..Len(calls) :
                             Len(calls[j].chunk) # pump.chunk_size}
            IN  /\ \A j \in short :
                      /\ j = Len(calls)
                      /\ pump.closed
                      /\ Len(calls[j].chunk) \in 1..(pump.chunk_size - 1)
                /\ ~pump.closed =>
                      /\ Len(pump.buffers[key]) < pump.chunk_size
                      /\ Concat(calls) \o pump.buffers[key] = pump.fed[key]
                /\ pump.closed => Concat(calls) = pump.fed[key]

\* Five bytes fed as 2 + 2 + 1 came out as a chunk of three and, at close(),
\* a chunk of two.
C24_Witness ==
    /\ pump.kind = "ChunkPipePump"
    /\ pump.closed
    /\ pump.chunk_size = 3
    /\ pump.fed["stdout"] = <<"a", "CR", "LF", "a", "a">>
    /\ CallsOf("h1", "stdout") =
           << [handler |-> "h1", key |-> "stdout", chunk |-> <<"a", "CR", "LF">>],
              [handler |-> "h1", key |-> "stdout", chunk |-> <<"a", "a">>] >>

----------------------------------------------------------------------------
(* hai.pipe_pump.CRLFPipePump.  An Optional[bytes] is a sequence holding    *)
(* the bytes, empty for None.                                              *)

\* CRLF_SEP_RE.match(buffer): where the first carriage return or newline
\* is, 0 if there is none.
CRLF_SEP_RE(buffer) ==
    LET at == {i \in 1..Len(buffer) : buffer[i] \in {"CR", "LF"}}
    IN  IF at = {} THEN 0 ELSE CHOOSE i \in at : \A j \in at : i <= j

\* CRLFPipePump._process_line.  The variant hands the handlers the flag of
\* the new content.
_process_line_own_flag(p, key, new_content, is_replace) ==
    LET known == key \in DOMAIN p.line_state
        old_content == IF known THEN <<p.line_state[key].content>> ELSE <<>>
        last_was_replace == IF known THEN p.line_state[key].is_replace ELSE FALSE
    IN  CallHandlers(
            [p EXCEPT !.line_state =
                (key :> [content |-> new_content, is_replace |-> is_replace]) @@ @],
            1, [key |-> key, old_content |-> old_content,
                new_content |-> new_content, is_replace |-> is_replace])

_process_line(p, key, new_content, is_replace) ==
    LET known == key \in DOMAIN p.line_state
        old_content == IF known THEN <<p.line_state[key].content>> ELSE <<>>
        last_was_replace == IF known THEN p.line_state[key].is_replace ELSE FALSE
    IN  CallHandlers(
            [p EXCEPT !.line_state =
                (key :> [content |-> new_content, is_replace |-> is_replace]) @@ @],
            1, [key |-> key, old_content |-> old_content,
                new_content |-> new_content, is_replace |-> last_was_replace])

RECURSIVE CRLFPipePump_process_buffer(_, _, _)
\* CRLFPipePump._process_buffer
CRLFPipePump_process_buffer(p, key, buffer) ==
    LET m == CRLF_SEP_RE(buffer)
    IN  IF m = 0 THEN [p EXCEPT !.buffers[key] = buffer]
        ELSE CRLFPipePump_process_buffer(
                 _process_line(p, key, SubSeq(buffer, 1, m - 1), buffer[m] = "CR"),
                 key, SubSeq(buffer, m + 1, Len(buffer)))

RECURSIVE CRLFPipePump_flush(_, _)
\* CRLFPipePump.close: for key, buffer in self.buffers.items(), from the
\* i-th key on.
CRLFPipePump_flush(p, i) ==
    IF i > Len(Keys) THEN p
    ELSE CRLFPipePump_flush(
             IF p.buffers[Keys[i]] # <<>>
             THEN _process_line(p, Keys[i], p.buffers[Keys[i]], FALSE) ELSE p,
             i + 1)

\* CRLFPipePump(), add_handler(..), register(key, None)
NewCRLFPipePump ==
    /\ pump = NoPump
    /\ pump' = PipePump("CRLFPipePump", <<>>, 0)
    /\ UNCHANGED notPump

\* BasePipePump.feed(key, data) on a CRLFPipePump
CRLFFeed(key, data) ==
    /\ pump.kind = "CRLFPipePump"
    /\ ~pump.closed
    /\ pump.feeds < MaxFeeds
    /\ LET buffered_data == pump.buffers[key]
           fed == [pump EXCEPT !.fed[key] = @ \o data, !.feeds = @ + 1]
       IN  pump' = IF data # <<>>
                   THEN CRLFPipePump_process_buffer(fed, key, buffered_data \o data)
                   ELSE [fed EXCEPT !.buffers[key] = buffered_data]
    /\ UNCHANGED notPump

\* CRLFPipePump.close()
CRLFClose ==
    /\ pump.kind = "CRLFPipePump"
    /\ ~pump.closed
    /\ pump' = [CRLFPipePump_flush(pump, 1) EXCEPT !.buffers = <<>>,
                                                  !.closed = TRUE]
    /\ UNCHANGED notPump

CRLFNext ==
    \/ NewCRLFPipePump
    \/ \E i \in 1..Len(Keys), data \in Data : CRLFFeed(Keys[i], data)
    \/ CRLFClose

CRLFSpec == InitPool({1}) /\ [][CRLFNext]_vars

----------------------------------------------------------------------------
(* Properties of CRLFSpec.                                                  *)

\* Where the carriage returns and newlines of a stream are.
Ends(stream) == {i \in 1..Len(stream) : stream[i] \in {"CR", "LF"}}

\* Where the j-th of them is; 0 for j = 0.
EndAt(stream, j) ==
    IF j = 0 THEN 0
    ELSE CHOOSE i \in Ends(stream) :
             Cardinality({x \in Ends(stream) : x <= i}) = j

\* The segments of a stream: the j-th is what lies between the (j-1)-th and
\* the j-th carriage return or newline, with what ended it; if closed, the
\* non-empty rest after the last of them is one more segment.
Segments(stream, closed) ==
    LET n == Cardinality(Ends(stream))
        rest == SubSeq(stream, EndAt(stream, n) + 1, Len(stream))
        ended == [j \in 1..n |->
                     [content |-> SubSeq(stream, EndAt(stream, j - 1) + 1,
                                         EndAt(stream, j) - 1),
                      by |-> stream[EndAt(stream, j)]]]
    IN  IF closed /\ rest # <<>>
        THEN Append(ended, [content |-> rest, by |-> "close"])
        ELSE ended

\* C25: each handler is called once per segment of a key's stream that a
\* carriage return or a newline ends, and once at close() for a non-empty
\* rest; the call gets the key's previous segment as the old content (none
\* for the first) and a flag that is true exactly when a carriage return
\* ended that previous segment; only the last segment of a key is kept.
C25_ReplaceFlagIsPreviousCR ==
    pump.kind = "CRLFPipePump" =>
        \A k \in 1..Len(Keys), h \in 1..Len(Handlers) :
            LET key == Keys[k]
                calls == CallsOf(Handlers[h], key)
                segments == Segments(pump.fed[key], pump.closed)
            IN  /\ Len(calls) = Len(segments)
                /\ \A j \in 1..Len(calls) :
                       /\ calls[j].new_content = segments[j].content
                       /\ calls[j].old_content =
                              IF j = 1 THEN <<>> ELSE <<segments[j-1].content>>
                       /\ calls[j].is_replace =
                              (j > 1 /\ segments[j-1].by = "CR")
                /\ (key \in DOMAIN pump.line_state) = (segments # <<>>)
                /\ segments # <<>> =>
                       pump.line_state[key] =
                           [content |-> segments[Len(segments)].content,
                            is_replace |-> segments[Len(segments)].by = "CR"]

\* A segment ended by a carriage return, one ended by a newline and a rest:
\* the second call replaces, the one at close() adds.
C25_Witness ==
    /\ pump.kind = "CRLFPipePump"
    /\ pump.closed
    /\ pump.fed["stdout"] = <<"a", "CR", "a", "LF", "a">>
    /\ Len(CallsOf("h2", "stdout")) = 3
    /\ CallsOf("h2", "stdout")[2].is_replace
    /\ ~CallsOf("h2", "stdout")[3].is_replace
    /\ CallsOf("h2", "stdout")[3].old_content = << <<"a">> >>

----------------------------------------------------------------------------
(* hai.event_emitter.EventEmitter.  A dict of keyword arguments is a set of *)
(* <<key, value>> pairs.                                                   *)

\* Thing.event_types of the tests.
event_types == {"one", "two"}

\* The events tried with on, off and emit.
Events == event_types \cup {"*", "hullo"}

\* The handlers tried; boom raises OSError whenever it is called.
EventHandlers == {"handle", "other", "boom"}

\* The args tried with emit: none, an extra key, and the keys emit fills in.
ArgsTried == {{}, {<<"oh", "no">>}, {<<"event", "mine">>}, {<<"sender", "me">>}}

\* Every variable but the emitter.
notEmitter == <<parallelism, handles, taskqueue, tasks, completed_tasks, wt,
                result, mr, raised, task_complete_event, call, limiter, pump,
                upload>>

\* _get_event_emitter_dict(obj).get(event, set())
registered(dict, event) == IF event \in DOMAIN dict THEN dict[event] ELSE {}

\* args.setdefault(key, value)
setdefault(args, key, value) ==
    IF \E pair \in args : pair[1] = key THEN args ELSE args \cup {<<key, value>>}

\* The orders in which a for loop may go through a set.
Orders(set) ==
    {order \in [1..Cardinality(set) -> set] :
        \A i, j \in 1..Cardinality(set) : order[i] = order[j] => i = j}

\* An EventEmitter with nothing registered; last is the latest call made on
\* it: what it raised and the handler calls it made.
EventEmitter ==
    [kind |-> "EventEmitter", dict |-> <<>>,
     last |-> [op |-> "new", event |-> "", handler |-> "", args |-> {},
               quiet |-> TRUE, raised |-> "", called |-> <<>>]]

\* EventEmitter.on.  The variant registers for any event.
on_unchecked(event, handler) ==
    /\ emitter.kind = "EventEmitter"
    /\ emitter' = [emitter EXCEPT
                      !.dict = (event :> (registered(@, event) \cup {handler})) @@ @,
                      !.last = [op |-> "on", event |-> event,
                                handler |-> handler, args |-> {}, quiet |-> TRUE,
                                raised |-> "", called |-> <<>>]]
    /\ UNCHANGED notEmitter

on(event, handler) ==
    /\ emitter.kind = "EventEmitter"
    /\ IF event # "*" /\ event \notin event_types
       THEN emitter' = [emitter EXCEPT
                          !.last = [op |-> "on", event |-> event,
                                    handler |-> handler, args |-> {}, quiet |-> TRUE,
                                    raised |-> "ValueError", called |-> <<>>]]
       ELSE emitter' = [emitter EXCEPT
                          !.dict = (event :> (registered(@, event) \cup {handler})) @@ @,
                          !.last = [op |-> "on", event |-> event,
                                    handler |-> handler, args |-> {}, quiet |-> TRUE,
                                    raised |-> "", called |-> <<>>]]
    /\ UNCHANGED notEmitter

\* EventEmitter.off.  The variant removes the handler from every event.
off_everywhere(event, handler) ==
    /\ emitter.kind = "EventEmitter"
    /\ emitter' = [emitter EXCEPT
                      !.dict = [e \in DOMAIN @ |-> @[e] \ {handler}],
                      !.last = [op |-> "off", event |-> event,
                                handler |-> handler, args |-> {}, quiet |-> TRUE,
                                raised |-> "", called |-> <<>>]]
    /\ UNCHANGED notEmitter

off(event, handler) ==
    /\ emitter.kind = "EventEmitter"
    /\ emitter' = [emitter EXCEPT
                      !.dict = IF event \in DOMAIN @
                               THEN [@ EXCEPT ![event] = @ \ {handler}] ELSE @,
                      !.last = [op |-> "off", event |-> event,
                                handler |-> handler, args |-> {}, quiet |-> TRUE,
                                raised |-> "", called |-> <<>>]]
    /\ UNCHANGED notEmitter

\* The handler calls of emit's loop over the handlers in the given order:
\* all of them if quiet, else up to the first one that raises.
Called(order, args, quiet) ==
    LET raising == {i \in 1..Len(order) : order[i] = "boom"}
        n == IF quiet \/ raising = {} THEN Len(order)
             ELSE CHOOSE i \in raising : \A j \in raising : i <= j
    IN  [i \in 1..n |-> [handler |-> order[i], args |-> args]]

\* EventEmitter.emit.  The variant swallows the exception of a handler and
\* ends the loop there.
emit_stopping(event, args, quiet) ==
    /\ emitter.kind = "EventEmitter"
    /\ IF event \notin event_types
       THEN emitter' = [emitter EXCEPT
                          !.last = [op |-> "emit", event |-> event,
                                    handler |-> "", args |-> args, quiet |-> quiet,
                                    raised |-> "ValueError", called |-> <<>>]]
       ELSE LET handlers == registered(emitter.dict, event)
                            \cup registered(emitter.dict, "*")
                kwargs == setdefault(setdefault(args, "sender", "self"),
                                     "event", event)
            IN  \E order \in Orders(handlers) :
                   LET called == Called(order, kwargs, FALSE)
                   IN  emitter' = [emitter EXCEPT
                          !.last = [op |-> "emit", event |-> event,
                                    handler |-> "", args |-> args, quiet |-> quiet,
                                    raised |->
                                        IF ~quiet /\ "boom" \in handlers
                                        THEN "OSError" ELSE "",
                                    called |-> called]]
    /\ UNCHANGED notEmitter

emit(event, args, quiet) ==
    /\ emitter.kind = "EventEmitter"
    /\ IF event \notin event_types
       THEN emitter' = [emitter EXCEPT
                          !.last = [op |-> "emit", event |-> event,
                                    handler |-> "", args |-> args, quiet |-> quiet,
                                    raised |-> "ValueError", called |-> <<>>]]
       ELSE LET handlers == registered(emitter.dict, event)
                            \cup registered(emitter.dict, "*")
                kwargs == setdefault(setdefault(args, "sender", "self"),
                                     "event", event)
            IN  \E order \in Orders(handlers) :
                   LET called == Called(order, kwargs, quiet)
                   IN  emitter' = [emitter EXCEPT
                          !.last = [op |-> "emit", event |-> event,
                                    handler |-> "", args |-> args, quiet |-> quiet,
                                    raised |->
                                        IF ~quiet /\ "boom" \in handlers
                                        THEN "OSError" ELSE "",
                                    called |-> called]]
    /\ UNCHANGED notEmitter

\* Thing()
NewEventEmitter ==
    /\ emitter = NoEmitter
    /\ emitter' = EventEmitter
    /\ UNCHANGED notEmitter

EmitterNext ==
    \/ NewEventEmitter
    \/ \E event \in Events, handler \in EventHandlers : on(event, handler)
    \/ \E event \in Events, handler \in EventHandlers : off(event, handler)
    \/ \E event \in Events, args \in ArgsTried, quiet \in BOOLEAN :
          emit(event, args, quiet)

EmitterSpec == InitPool({1}) /\ [][EmitterNext]_vars

----------------------------------------------------------------------------
(* Properties of EmitterSpec.                                               *)

\* The handlers that the latest emit had to call.
Listening ==
    registered(emitter.dict, emitter.last.event) \cup registered(emitter.dict, "*")

\* The latest emit called each listening handler once and no other.
CalledEachOnce ==
    /\ Len(emitter.last.called) = Cardinality(Listening)
    /\ {emitter.last.called[i].handler : i \in 1..Len(emitter.last.called)}
           = Listening

\* C26: on() with an event that is neither '*' nor an event type raises
\* ValueError and registers nothing; emit() with an event that is not an
\* event type raises ValueError and calls no handler.
C26_UnknownEventRejected ==
    [][/\ (emitter'.last.op = "on"
           /\ emitter'.last.event \notin event_types \cup {"*"}) =>
              /\ emitter'.last.raised = "ValueError"
              /\ emitter'.dict = emitter.dict
       /\ (emitter'.last.op = "emit"
           /\ emitter'.last.event \notin event_types) =>
              /\ emitter'.last.raised = "ValueError"
              /\ emitter'.last.called = <<>>
              /\ emitter'.dict = emitter.dict]_vars

\* emit('hullo') raised although a handler listens to every event.
C26_Witness ==
    /\ emitter.kind = "EventEmitter"
    /\ emitter.last.op = "emit"
    /\ emitter.last.event = "hullo"
    /\ emitter.last.raised = "ValueError"
    /\ emitter.last.called = <<>>
    /\ registered(emitter.dict, "*") # {}

\* off(event, handler) takes the handler out of the set of that event and
\* changes nothing else.
OffRemovesOneRegistration ==
    emitter'.last.op = "off" =>
        \A e \in Events :
            registered(emitter'.dict, e) =
                IF e = emitter'.last.event
                THEN registered(emitter.dict, e) \ {emitter'.last.handler}
                ELSE registered(emitter.dict, e)

\* C27: an emit() that returns calls each handler registered for the event
\* or for '*' exactly once, with the emitter as sender and the event as
\* event; off() removes only the registration under its event and is a
\* no-op for a handler that is not registered.
C27_EmitCallsRegisteredOnce ==
    /\ [](emitter.kind = "EventEmitter" /\ emitter.last.op = "emit"
              /\ emitter.last.raised = "" =>
             /\ CalledEachOnce
             /\ \A i \in 1..Len(emitter.last.called) :
                    /\ <<"sender", "self">> \in emitter.last.called[i].args
                    /\ <<"event", emitter.last.event>>
                           \in emitter.last.called[i].args)
    /\ [][OffRemovesOneRegistration]_vars

\* The keyword arguments of a call hold the caller's args, and a sender and
\* an event: the emitter and the emitted event unless the caller's args
\* have that key.
ArgsWithDefaults(kwargs) ==
    /\ emitter.last.args \subseteq kwargs
    /\ \A pair \in kwargs \ emitter.last.args :
           pair \in {<<"sender", "self">>, <<"event", emitter.last.event>>}
    /\ \A key \in {"sender", "event"} :
           Cardinality({pair \in kwargs : pair[1] = key}) = 1

\* C27, with what emit() does to args: an emit() that returns calls each
\* handler registered for the event or for '*' exactly once; the call gets
\* the caller's args, with sender (the emitter) and event (the event) added
\* for the keys that the args do not have; off() is as above.
C27_EmitCallsRegisteredOnceWithDefaults ==
    /\ [](emitter.kind = "EventEmitter" /\ emitter.last.op = "emit"
              /\ emitter.last.raised = "" =>
             /\ CalledEachOnce
             /\ \A i \in 1..Len(emitter.last.called) :
                    ArgsWithDefaults(emitter.last.called[i].args))
    /\ [][OffRemovesOneRegistration]_vars

\* 'one' has a set without handle, '*' has handle and other: the emit of
\* 'one' called handle and other once each, with the caller's args.
C27_Witness ==
    /\ emitter.kind = "EventEmitter"
    /\ emitter.last.op = "emit"
    /\ emitter.last.event = "one"
    /\ emitter.last.raised = ""
    /\ emitter.last.args = {<<"oh", "no">>}
    /\ "one" \in DOMAIN emitter.dict
    /\ emitter.dict["one"] = {"other"}
    /\ registered(emitter.dict, "*") = {"handle", "other"}
    /\ Len(emitter.last.called) = 2

\* C28: with quiet the exception of a handler is swallowed, emit() returns
\* and has called every registered handler; without quiet the exception of
\* a handler leaves emit().
C28_QuietSwallows ==
    (emitter.kind = "EventEmitter" /\ emitter.last.op = "emit"
        /\ emitter.last.event \in event_types) =>
        /\ emitter.last.quiet =>
               emitter.last.raised = "" /\ CalledEachOnce
        /\ (~emitter.last.quiet /\ "boom" \in Listening) =>
               /\ emitter.last.raised = "OSError"
               /\ emitter.last.called[Len(emitter.last.called)].handler = "boom"
        /\ (~emitter.last.quiet /\ "boom" \notin Listening) =>
               emitter.last.raised = "" /\ CalledEachOnce

\* A quiet emit() called the raising handler first and the two others after
\* it.
C28_Witness ==
    /\ emitter.kind = "EventEmitter"
    /\ emitter.last.op = "emit"
    /\ emitter.last.quiet
    /\ emitter.last.raised = ""
    /\ Len(emitter.last.called) = 3
    /\ emitter.last.called[1].handler = "boom"

----------------------------------------------------------------------------
(* hai.boto3_multipart_upload.MultipartUploader.upload_parts.  Of the S3    *)
(* calls, upload_part may raise an Exception; the others return.  The      *)
(* exception of an attempt is named by <<part_number, attempt>>.           *)

\* Parts handed to upload_parts.
MaxParts == 3

\* MultipartUploader.part_retry_attempts
part_retry_attempts == 10

\* Every variable but the upload.
notUpload == <<parallelism, handles, taskqueue, tasks, completed_tasks, wt,
               result, mr, raised, task_complete_event, call, limiter, pump,
               emitter>>

\* A call of the S3 client, as the stub of a test would record it.
S3Call(name, part_number, attempt, ok) ==
    [call |-> name, part |-> part_number, attempt |-> attempt, ok |-> ok]

\* len(chunk) of the chunks handed to upload_parts.
PartSizes == {1, 2}

\* The sizes of the chunks of an upload of the given number of parts: the
\* chunks are of one size, but for the last one, as upload_file cuts them.
ChunksOf(parts) ==
    {[i \in 1..parts |-> IF i = parts THEN last ELSE size] :
        size \in PartSizes, last \in PartSizes}

\* upload_parts(bucket, key, parts) up to the first part: the multipart
\* upload is created.  chunks is the size of each part, bytes the local
\* counter, s3 is the calls made on the client, events the events emitted,
\* outcome how upload_parts ended.
UploadPartsBegin ==
    /\ upload = NoUpload
    /\ \E parts \in 0..MaxParts : \E chunks \in ChunksOf(parts) :
          upload' = [kind |-> "upload_parts", parts |-> parts,
                     chunks |-> chunks,
                     pc |-> IF parts = 0 THEN "complete" ELSE "part",
                     part_number |-> 1, attempt |-> 0,
                     part_infos |-> <<>>, bytes |-> 0,
                     s3 |-> <<S3Call("create_multipart_upload", 0, 0, TRUE)>>,
                     events |-> <<>>,
                     outcome |-> [kind |-> "running"]]
    /\ UNCHANGED notUpload

\* One attempt of the part: s3.upload_part returns (ok) or raises.  The
\* variant goes on with the next part when the last attempt failed.
UploadPartSkipping(ok) ==
    /\ upload.kind = "upload_parts"
    /\ upload.pc = "part"
    /\ LET called == [upload EXCEPT
                         !.s3 = Append(@, S3Call("upload_part", upload.part_number,
                                                 upload.attempt, ok))]
           next == IF upload.part_number = upload.parts
                   THEN "complete" ELSE "part"
       IN  IF ok
           THEN upload' = [called EXCEPT
                    !.bytes = @ + upload.chunks[upload.part_number],
                    !.part_infos = Append(@, upload.part_number),
                    !.events = Append(@, [event |-> "progress",
                                          part_number |-> upload.part_number,
                                          attempt |-> upload.attempt,
                                          bytes_uploaded |->
                                              upload.bytes +
                                              upload.chunks[upload.part_number]]),
                    !.pc = next,
                    !.part_number = @ + 1,
                    !.attempt = 0]
           ELSE upload' = [called EXCEPT
                    !.events = Append(@, [event |-> "part-error",
                                          part_number |-> upload.part_number,
                                          attempt |-> upload.attempt]),
                    !.pc = IF upload.attempt = part_retry_attempts - 1
                           THEN next ELSE "part",
                    !.part_number = IF upload.attempt = part_retry_attempts - 1
                                    THEN @ + 1 ELSE @,
                    !.attempt = IF upload.attempt = part_retry_attempts - 1
                                THEN 0 ELSE @ + 1]
    /\ UNCHANGED notUpload

\* The variant counts the bytes and the part at every attempt, failed ones
\* included.
UploadPartCountingAttempts(ok) ==
    /\ upload.kind = "upload_parts"
    /\ upload.pc = "part"
    /\ LET called == [upload EXCEPT
                         !.s3 = Append(@, S3Call("upload_part", upload.part_number,
                                                 upload.attempt, ok))]
       IN  IF ok
           THEN upload' = [called EXCEPT
                    !.bytes = @ + upload.chunks[upload.part_number],
                    !.part_infos = Append(@, upload.part_number),
                    !.events = Append(@, [event |-> "progress",
                                          part_number |-> upload.part_number,
                                          attempt |-> upload.attempt,
                                          bytes_uploaded |->
                                              upload.bytes +
                                              upload.chunks[upload.part_number]]),
                    !.pc = IF upload.part_number = upload.parts
                           THEN "complete" ELSE "part",
                    !.part_number = @ + 1,
                    !.attempt = 0]
           ELSE upload' = [called EXCEPT
                    !.bytes = @ + upload.chunks[upload.part_number],
                    !.part_infos = Append(@, upload.part_number),
                    !.events = Append(@, [event |-> "part-error",
                                          part_number |-> upload.part_number,
                                          attempt |-> upload.attempt]),
                    !.pc = IF upload.attempt = part_retry_attempts - 1
                           THEN "abort" ELSE "part",
                    !.attempt = IF upload.attempt = part_retry_attempts - 1
                                THEN @ ELSE @ + 1]
    /\ UNCHANGED notUpload

UploadPart(ok) ==
    /\ upload.kind = "upload_parts"
    /\ upload.pc = "part"
    /\ LET called == [upload EXCEPT
                         !.s3 = Append(@, S3Call("upload_part", upload.part_number,
                                                 upload.attempt, ok))]
       IN  IF ok
           THEN upload' = [called EXCEPT
                    !.bytes = @ + upload.chunks[upload.part_number],
                    !.part_infos = Append(@, upload.part_number),
                    !.events = Append(@, [event |-> "progress",
                                          part_number |-> upload.part_number,
                                          attempt |-> upload.attempt,
                                          bytes_uploaded |->
                                              upload.bytes +
                                              upload.chunks[upload.part_number]]),
                    !.pc = IF upload.part_number = upload.parts
                           THEN "complete" ELSE "part",
                    !.part_number = @ + 1,
                    !.attempt = 0]
           ELSE upload' = [called EXCEPT
                    !.events = Append(@, [event |-> "part-error",
                                          part_number |-> upload.part_number,
                                          attempt |-> upload.attempt]),
                    !.pc = IF upload.attempt = part_retry_attempts - 1
                           THEN "abort" ELSE "part",
                    !.attempt = IF upload.attempt = part_retry_attempts - 1
                                THEN @ ELSE @ + 1]
    /\ UNCHANGED notUpload

\* except: abort_multipart_upload(...); raise
UploadAbort ==
    /\ upload.kind = "upload_parts"
    /\ upload.pc = "abort"
    /\ upload' = [upload EXCEPT
                     !.s3 = Append(@, S3Call("abort_multipart_upload", 0, 0, TRUE)),
                     !.pc = "done",
                     !.outcome = [kind |-> "raised",
                                  exception |-> <<upload.part_number,
                                                  upload.attempt>>]]
    /\ UNCHANGED notUpload

\* return self.s3.complete_multipart_upload(...)
UploadComplete ==
    /\ upload.kind = "upload_parts"
    /\ upload.pc = "complete"
    /\ upload' = [upload EXCEPT
                     !.s3 = Append(@, S3Call("complete_multipart_upload", 0, 0, TRUE)),
                     !.pc = "done",
                     !.outcome = [kind |-> "returned",
                                  Parts |-> upload.part_infos]]
    /\ UNCHANGED notUpload

UploadNext ==
    \/ UploadPartsBegin
    \/ \E ok \in BOOLEAN : UploadPart(ok)
    \/ UploadAbort
    \/ UploadComplete

UploadSpec == InitPool({1}) /\ [][UploadNext]_vars

----------------------------------------------------------------------------
(* Properties of UploadSpec.                                                *)

\* The upload_part calls made for a part, in order.
Attempts(part_number) ==
    SelectSeq(upload.s3,
              LAMBDA c : c.call = "upload_part" /\ c.part = part_number)

\* The number of calls of the given name made on the client.
S3Calls(name) ==
    Cardinality({i \in 1..Len(upload.s3) : upload.s3[i].call = name})

\* The parts all of whose attempts failed.
Exhausted ==
    {part_number \in 1..upload.parts :
        /\ Len(Attempts(part_number)) = part_retry_attempts
        /\ \A i \in 1..part_retry_attempts : ~Attempts(part_number)[i].ok}

\* C29: a part is attempted at most part_retry_attempts times, again after
\* each failed attempt and never after a successful one; when all attempts
\* of a part have failed no later part is attempted, the upload is aborted
\* once and never completed, and the exception of the last attempt leaves
\* upload_parts; there is one part-error event per failed attempt.
C29_RetryThenAbort ==
    upload.kind = "upload_parts" =>
        /\ \A part_number \in 1..upload.parts :
               LET attempts == Attempts(part_number)
               IN  /\ Len(attempts) <= part_retry_attempts
                   /\ \A i \in 1..Len(attempts) :
                          /\ attempts[i].attempt = i - 1
                          /\ attempts[i].ok => i = Len(attempts)
                   /\ (upload.pc \in {"complete", "done"} /\ Exhausted = {}) =>
                          attempts # <<>> /\ attempts[Len(attempts)].ok
        /\ \A part_number \in Exhausted :
               /\ \A later \in (part_number + 1)..upload.parts :
                      Attempts(later) = <<>>
               /\ S3Calls("complete_multipart_upload") = 0
               /\ upload.pc \in {"abort", "done"}
               /\ upload.pc = "done" =>
                      /\ S3Calls("abort_multipart_upload") = 1
                      /\ upload.outcome =
                             [kind |-> "raised",
                              exception |-> <<part_number, part_retry_attempts - 1>>]
        /\ Exhausted = {} => S3Calls("abort_multipart_upload") = 0
        /\ SelectSeq(upload.events, LAMBDA e : e.event = "part-error") =
               [i \in 1..Len(SelectSeq(upload.s3,
                                       LAMBDA c : c.call = "upload_part" /\ ~c.ok)) |->
                   LET c == SelectSeq(upload.s3,
                                      LAMBDA x : x.call = "upload_part" /\ ~x.ok)[i]
                   IN  [event |-> "part-error", part_number |-> c.part,
                        attempt |-> c.attempt]]

\* The first part went through at its third attempt, every attempt of the
\* second one failed: the upload was aborted and the third part never tried.
C29_Witness ==
    /\ upload.kind = "upload_parts"
    /\ upload.pc = "done"
    /\ upload.parts = 3
    /\ Len(Attempts(1)) = 3
    /\ Exhausted = {2}
    /\ upload.outcome = [kind |-> "raised",
                         exception |-> <<2, part_retry_attempts - 1>>]
    /\ S3Calls("abort_multipart_upload") = 1

----------------------------------------------------------------------------
(* MultipartUploader.upload_file: the checks made before upload_parts is    *)
(* called.  A number of bytes is the pair <<m, b>> for m * MiB + b bytes,   *)
(* 0 <= b < MiB, so that 5 GiB and the sizes around it can be written; None *)
(* is the empty tuple.                                                     *)

MiB == 1024 * 1024

\* m MiB and b bytes.
Size(m, b) == <<m, b>>

NoSize == <<>>

\* a < b and a <= b on numbers of bytes.
Less(a, b) == a[1] < b[1] \/ (a[1] = b[1] /\ a[2] < b[2])

LessEq(a, b) == a = b \/ Less(a, b)

\* max(a, b) and min(a, b) on numbers of bytes.
MaxSize(a, b) == IF Less(a, b) THEN b ELSE a

MinSize(a, b) == IF Less(a, b) THEN a ELSE b

\* bool(n) of an Optional[int]: neither None nor 0.
Truthy(n) == n # NoSize /\ n # Size(0, 0)

S3_MINIMUM_MULTIPART_CHUNK_SIZE == Size(5, 0)

S3_MAXIMUM_MULTIPART_CHUNK_SIZE == Size(5 * 1024, 0)

S3_MINIMUM_MULTIPART_FILE_SIZE == S3_MINIMUM_MULTIPART_CHUNK_SIZE

minimum_file_size == S3_MINIMUM_MULTIPART_FILE_SIZE

minimum_chunk_size == S3_MINIMUM_MULTIPART_CHUNK_SIZE

maximum_chunk_size == Size(150, 0)

default_chunk_size == Size(50, 0)

\* int(file_size / 20): MiB = 20 * (MiB \div 20) + MiB % 20, so the
\* quotient of m * MiB + b is m * (MiB \div 20) + (m * (MiB % 20) + b) \div 20.
IntDiv20(n) ==
    LET q == n[1] * (MiB \div 20) + (n[1] * (MiB % 20) + n[2]) \div 20
    IN  Size(q \div MiB, q % MiB)

\* MultipartUploader.determine_chunk_size_from_file_size
determine_chunk_size_from_file_size(file_size) ==
    IF Truthy(file_size) THEN IntDiv20(file_size) ELSE default_chunk_size

\* The file sizes tried: os.stat fails (None), an empty file, and sizes
\* around minimum_file_size and around 20 times maximum_chunk_size.
FileSizes ==
    {NoSize, Size(0, 0), Size(0, 6), Size(4, MiB - 1), Size(5, 0), Size(5, 1),
     Size(17, 0), Size(100, 0), Size(2999, MiB - 1), Size(3000, 0),
     Size(3000, 20), Size(6000, 0)}

\* The chunk_size arguments tried: None, 0, and sizes around the limits.
ChunkSizesTried ==
    {NoSize, Size(0, 0), Size(0, 300), Size(4, MiB - 1), Size(5, 0),
     Size(50, 0), Size(5 * 1024 - 1, MiB - 1), Size(5 * 1024, 0),
     Size(5 * 1024, 1)}

\* The chunk size upload_file uses when none is given.
AutomaticChunkSize(size) ==
    LET minimum == MaxSize(S3_MINIMUM_MULTIPART_CHUNK_SIZE, minimum_chunk_size)
        maximum == MinSize(S3_MAXIMUM_MULTIPART_CHUNK_SIZE, maximum_chunk_size)
    IN  MaxSize(minimum,
                MinSize(determine_chunk_size_from_file_size(size), maximum))

\* upload_file(bucket, key, fp, chunk_size) for a file of the given size,
\* up to the call of upload_parts, which creates the multipart upload.
upload_file(size, chunk_size) ==
    /\ upload = NoUpload
    /\ LET used == IF ~Truthy(chunk_size) THEN AutomaticChunkSize(size)
                   ELSE chunk_size
           started == [kind |-> "upload_file", size |-> size,
                       chunk_size |-> chunk_size, used |-> used,
                       raised |-> "", s3 |-> <<>>]
       IN  upload' =
               IF Truthy(size) /\ LessEq(size, minimum_file_size)
               THEN [started EXCEPT !.raised = "ValueError: file is too small"]
               ELSE IF ~(/\ LessEq(S3_MINIMUM_MULTIPART_CHUNK_SIZE, used)
                         /\ Less(used, S3_MAXIMUM_MULTIPART_CHUNK_SIZE))
               THEN [started EXCEPT !.raised = "ValueError: chunk size"]
               ELSE [started EXCEPT
                        !.s3 = <<S3Call("create_multipart_upload", 0, 0, TRUE)>>]
    /\ UNCHANGED notUpload

\* The caller takes the result or the exception and may call again.
UploadFileEnds ==
    /\ upload.kind = "upload_file"
    /\ upload' = NoUpload
    /\ UNCHANGED notUpload

FileNext ==
    \/ \E size \in FileSizes, chunk_size \in ChunkSizesTried :
          upload_file(size, chunk_size)
    \/ UploadFileEnds

FileSpec == InitPool({1}) /\ [][FileNext]_vars

----------------------------------------------------------------------------
(* Properties of FileSpec.                                                  *)

\* C30: upload_file raises ValueError and creates no multipart upload when
\* an explicit chunk_size is outside [5 MiB, 5 GiB) and when the known size
\* of the file is smaller than minimum_file_size; a file of at least
\* minimum_file_size bytes is not rejected for its size; an automatically
\* determined chunk size lies within [minimum_chunk_size,
\* maximum_chunk_size].
C30_ValidatesBeforeS3 ==
    upload.kind = "upload_file" =>
        /\ (upload.size # NoSize /\ LessEq(minimum_file_size, upload.size)) =>
               upload.raised # "ValueError: file is too small"
        /\ (upload.size # NoSize /\ Less(upload.size, minimum_file_size)) =>
               upload.raised # "" /\ upload.s3 = <<>>
        /\ (/\ upload.chunk_size # NoSize
            /\ ~(/\ LessEq(S3_MINIMUM_MULTIPART_CHUNK_SIZE, upload.chunk_size)
                  /\ Less(upload.chunk_size, S3_MAXIMUM_MULTIPART_CHUNK_SIZE))) =>
               upload.raised # "" /\ upload.s3 = <<>>
        /\ upload.raised # "" => upload.s3 = <<>>
        /\ upload.chunk_size = NoSize =>
               /\ LessEq(minimum_chunk_size, upload.used)
               /\ LessEq(upload.used, maximum_chunk_size)

----------------------------------------------------------------------------
(* AddSpec: add_task calls made while a wait() is in progress on the same  *)
(* ParallelRun: from another thread, from a running task, from the         *)
(* callback of the wait()                                                  *)

\* Where an add_task call made during a wait() comes from.
Origins == {"thread", "task", "callback"}

\* A wait(fail_fast, callback=...) call without max_wait; added is for the
\* properties: the handles registered while the call lasts, each with the
\* origin of its add_task call.
AddCall(callback) ==
    [max_wait |-> 0, waited_for |-> 0, callback |-> callback, called |-> {},
     added |-> {}]

\* parallel.wait(fail_fast=..., callback=...)
AddWait ==
    /\ CallerIdle
    /\ \E fail_fast \in BOOLEAN : WaitBegin(Top, fail_fast)
    /\ \E callback \in BOOLEAN : call' = AddCall(callback)
    /\ UNCHANGED <<parallelism, handles, taskqueue, tasks, mr, raised,
                   task_complete_event, limiter, pump, emitter, upload>>

\* One iteration of the for loop of _wait_tick; the loop is over the list
\* self.tasks itself, so it also reaches a handle appended meanwhile.
AddWaitPoll ==
    /\ wt[Top].pc = "scan"
    /\ WaitPoll(Top)
    /\ UNCHANGED <<parallelism, handles, taskqueue, tasks, mr, raised, others>>

\* _wait_tick returns had_any_incomplete_task to the loop of wait.
WaitTickReturns ==
    /\ wt[Top].pc = "scan"
    /\ wt[Top].i > Len(tasks[Top])
    /\ wt' = [wt EXCEPT ![Top].pc = "callback"]
    /\ UNCHANGED <<parallelism, handles, taskqueue, tasks, completed_tasks,
                   result, mr, raised, others>>

\* if callback: callback(self).  The callback may call add_task.
WaitCallback ==
    /\ wt[Top].pc = "callback"
    /\ wt' = [wt EXCEPT ![Top].pc = "break"]
    /\ \/ /\ call.callback
          /\ Len(tasks[Top]) < MaxLoopTasks
          /\ \E fn \in Callables : add_task(Top, fn, Len(tasks[Top]) + 1)
          /\ call' = [call EXCEPT !.called = @ \cup {Top},
                                  !.added = @ \cup {<<Len(handles) + 1, "callback">>}]
       \/ /\ call' = [call EXCEPT !.called =
                          IF call.callback THEN @ \cup {Top} ELSE @]
          /\ UNCHANGED <<handles, taskqueue, tasks, completed_tasks, result>>
    /\ UNCHANGED <<parallelism, mr, raised, task_complete_event, limiter, pump,
                   emitter, upload>>

\* The two break conditions of the loop, then return list(completed_tasks)
\* or task_complete_event.wait(interval).
WaitBreak ==
    /\ wt[Top].pc = "break"
    /\ IF BreakWait(Top)
       THEN /\ wt' = [wt EXCEPT ![Top].pc = "idle"]
            /\ result' = [result EXCEPT ![Top] =
                             [kind |-> "returned", list |-> completed_tasks[Top]]]
       ELSE /\ wt' = [wt EXCEPT ![Top].pc = "sleep"]
            /\ UNCHANGED result
    /\ UNCHANGED <<parallelism, handles, taskqueue, tasks, completed_tasks, mr,
                   raised, others>>

\* task_complete_event.wait(interval) and clear() are over; the next
\* iteration begins.
AddWaitWake ==
    /\ WaitWake(Top)
    /\ UNCHANGED <<parallelism, handles, taskqueue, tasks, mr, raised, others>>

\* add_task called by another thread, or by the callable of a running task,
\* at any point of the wait() in progress.
AddTaskWhileWaiting ==
    /\ wt[Top].pc # "idle"
    /\ Len(tasks[Top]) < MaxLoopTasks
    /\ \E origin \in {"thread", "task"} :
          /\ origin = "task" => Running # {}
          /\ call' = [call EXCEPT !.added = @ \cup {<<Len(handles) + 1, origin>>}]
    /\ \E fn \in Callables : add_task(Top, fn, Len(tasks[Top]) + 1)
    /\ UNCHANGED <<parallelism, wt, mr, raised, task_complete_event, limiter,
                   pump, emitter, upload>>

AddNext ==
    \/ LoopAddTask
    \/ AddWait
    \/ AddWaitPoll
    \/ WaitTickReturns
    \/ WaitCallback
    \/ WaitBreak
    \/ AddWaitWake
    \/ AddTaskWhileWaiting
    \/ StartTask
    \/ \E t \in 1..Len(handles) : FinishTask(t)

AddSpec == LoopInit /\ [][AddNext]_vars

----------------------------------------------------------------------------
(* Properties of AddSpec *)

\* The handles registered during the wait() in progress.
AddedMeanwhile == {a[1] : a \in call.added}

\* wait() returns its list.
WaitReturns == wt[Top].pc # "idle" /\ result'[Top].kind = "returned"

\* C31: when add_task was called while a wait() was in progress, from
\* another thread, a running task or the callback, that wait() returns
\* normally only when every handle registered at that moment, the newly
\* added ones included, is terminal, and the list it returns holds every
\* registered handle.
C31_WaitCoversTasksAddedMeanwhile ==
    [][(WaitReturns /\ AddedMeanwhile # {}) =>
          \A t \in Range(tasks[Top]) :
              /\ ready(t)
              /\ t \in result'[Top].list]_vars

----------------------------------------------------------------------------
(* Properties of LoopSpec: the order of the timeout check and the scan *)

\* More than max_wait has elapsed since wait() started.
TimeIsUp == call.max_wait # 0 /\ call.waited_for > call.max_wait

\* C32 as stated: completion is checked before the timeout, so a wait()
\* whose loop has gone round at least once raises the timeout only while
\* some registered handle is not terminal.
C32_CompletionBeforeTimeout ==
    [][(TimeoutStep /\ wt[Top].notReady # {}) =>
          \E t \in Range(tasks[Top]) : ~ready(t)]_vars

\* C32, amended: every iteration begins with the timeout check, which
\* raises if and only if max_wait is set and exceeded, whatever the state
\* of the handles; the timeout is raised nowhere else, and a scan that has
\* found no incomplete handle ends the call by returning the completed set,
\* however much time has passed since the check.
C32_TimeoutBeforeCompletion ==
    [][/\ (wt[Top].pc = "top" /\ wt'[Top].pc # "top") =>
             (TimeoutStep <=> TimeIsUp)
       /\ TimeoutStep => wt[Top].pc = "top"
       /\ (/\ wt[Top].pc = "scan"
           /\ wt[Top].i > Len(tasks[Top])
           /\ ~wt[Top].had_any_incomplete_task
           /\ wt'[Top].pc # "scan") =>
             /\ result'[Top].kind = "returned"
             /\ result'[Top].list = completed_tasks[Top]]_vars

\* A wait(max_wait=m) call has returned the completed set of a ParallelRun
\* with tasks although more than m had elapsed when it returned.
C32_Witness ==
    /\ result[Top].kind = "returned"
    /\ tasks[Top] # <<>>
    /\ result[Top].list = Range(tasks[Top])
    /\ TimeIsUp

----------------------------------------------------------------------------
(* Properties of RateSpec: the size of the bucket *)

\* The limiter has ticked since construction or the last reset(), so its
\* allowance is a number.
HasAllowance == limiter.kind = "RateLimiter" /\ limiter.current_state # None

\* C33: whatever ticks were made and however the clock went on between
\* them, the allowance is at most the configured rate (allowance and rate
\* are both kept multiplied by the period here), and no tick of a limiter
\* of rate 0 is allowed.
C33_AllowanceAtMostRate ==
    /\ HasAllowance => limiter.allowance <= limiter.rate * limiter.period
    /\ (limiter.kind = "RateLimiter" /\ limiter.rate = 0) =>
           \A k \in 1..Len(limiter.log) : ~limiter.log[k].state

\* A limiter was left idle for longer than it takes to refill the whole
\* bucket and then ticked: the tick took its token from a full bucket.
C33_Witness ==
    /\ HasAllowance
    /\ limiter.rate >= 1
    /\ Len(limiter.log) = limiter.rate + 2
    /\ Burst(limiter.rate + 1)
    /\ ~limiter.log[limiter.rate + 1].state
    /\ (limiter.now - limiter.log[1].at) * limiter.rate >
           limiter.rate * limiter.period
    /\ limiter.log[limiter.rate + 2].at = limiter.now
    /\ limiter.log[limiter.rate + 2].state
    /\ ~limiter.allow_underflow
    /\ limiter.allowance = limiter.rate * limiter.period - limiter.period

----------------------------------------------------------------------------
(* Properties of RateSpec: throttled ticks and underflow *)

\* The allowance a tick() made now starts from: the full bucket for a
\* limiter that has not ticked, otherwise the stored allowance plus the
\* refill for the time since the last check, capped at the rate.
Refilled ==
    IF limiter.current_state = None
    THEN limiter.rate * limiter.period
    ELSE Min(limiter.allowance + (limiter.now - limiter.last_check) * limiter.rate,
             limiter.rate * limiter.period)

\* A tick() call is made.
TickStep == limiter.kind = "RateLimiter" /\ limiter'.ticks = limiter.ticks + 1

\* C34: a tick is throttled exactly while the refilled allowance is under
\* one token; a throttled tick takes a token exactly when allow_underflow
\* is true: without allow_underflow it takes nothing from the refilled
\* allowance and the allowance is never negative, with allow_underflow it
\* lowers the refilled allowance by one token (`period` here), below zero
\* if need be.
C34_ThrottledTickTakesTokenIffUnderflow ==
    /\ []((HasAllowance /\ ~limiter.allow_underflow) => limiter.allowance >= 0)
    /\ [][TickStep =>
             LET r == limiter'.log[Len(limiter'.log)]
             IN  /\ r.state = (Refilled >= limiter.period)
                 /\ ~r.state =>
                        limiter'.allowance =
                            IF limiter.allow_underflow
                            THEN Refilled - limiter.period
                            ELSE Refilled]_vars

\* A limiter that allows underflow has a negative allowance after throttled
\* ticks, and a tick made after the clock went on was throttled still.
C34_Witness ==
    /\ HasAllowance
    /\ limiter.allow_underflow
    /\ limiter.rate >= 1
    /\ limiter.allowance < 0
    /\ Len(limiter.log) >= 2
    /\ ~limiter.log[Len(limiter.log)].state
    /\ ~limiter.log[Len(limiter.log) - 1].state
    /\ limiter.log[Len(limiter.log)].at > limiter.log[Len(limiter.log) - 1].at

----------------------------------------------------------------------------
(* ThreadSpec: a BasePipePump pumped by the thread of as_thread() while    *)
(* another thread writes to the pipes and calls close()                    *)

\* BasePipePump() with a pipe registered for every key.  selector is "open"
\* or "closed" while self.selector is the selector object and "None" once
\* it is None; selector_lock is "free" or the thread that holds it; pumper
\* and closer are the positions of the thread of as_thread() and of the
\* thread that calls close(); pipes is what was written to each pipe and
\* not read yet; writes counts the writes.  For the properties,
\* select_on_closed says that pump() has called select() on the closed
\* selector.
BasePipePump ==
    [kind |-> "BasePipePump", selector |-> "open", selector_lock |-> "free",
     pumper |-> "unstarted", closer |-> "idle",
     buffers |-> [k \in Range(Keys) |-> <<>>],
     pipes |-> [k \in Range(Keys) |-> <<>>],
     writes |-> 0, select_on_closed |-> FALSE, pumper_raised |-> None]

NewBasePipePump ==
    /\ pump = NoPump
    /\ pump' = BasePipePump
    /\ UNCHANGED notPump

\* The process at the other end writes a byte to one of the pipes.
PipeWrite ==
    /\ pump.kind = "BasePipePump"
    /\ pump.writes < MaxFeeds
    /\ \E key \in Range(Keys) :
          pump' = [pump EXCEPT !.pipes[key] = Append(@, "a"),
                               !.writes = @ + 1]
    /\ UNCHANGED notPump

\* pump.as_thread().start()
ThreadStart ==
    /\ pump.kind = "BasePipePump"
    /\ pump.pumper = "unstarted"
    /\ pump' = [pump EXCEPT !.pumper = "loop"]
    /\ UNCHANGED notPump

\* pumper: while self.selector is not None: self.pump(timeout=interval)
PumperLoop ==
    /\ pump.kind = "BasePipePump"
    /\ pump.pumper = "loop"
    /\ pump' = [pump EXCEPT !.pumper =
                    IF pump.selector # "None" THEN "acquire" ELSE "dead"]
    /\ UNCHANGED notPump

\* pump: with self.selector_lock
PumpAcquire ==
    /\ pump.kind = "BasePipePump"
    /\ pump.pumper = "acquire"
    /\ pump.selector_lock = "free"
    /\ pump' = [pump EXCEPT !.pumper = "check", !.selector_lock = "pumper"]
    /\ UNCHANGED notPump

\* pump: if not self.selector: return 0.  A selector object is true, open
\* or closed.
PumpCheck ==
    /\ pump.kind = "BasePipePump"
    /\ pump.pumper = "check"
    /\ pump' = IF pump.selector = "None"
               THEN [pump EXCEPT !.pumper = "loop", !.selector_lock = "free"]
               ELSE [pump EXCEPT !.pumper = "select"]
    /\ UNCHANGED notPump

\* What every pipe with data gives to feed(): read() takes what is there
\* and BasePipePump._process_buffer keeps the whole buffer.
ReadAll(p) ==
    [p EXCEPT !.buffers = [k \in Range(Keys) |-> p.buffers[k] \o p.pipes[k]],
              !.pipes = [k \in Range(Keys) |-> <<>>]]

\* pump: the one round of the while loop that max_reads=1 allows:
\* self.selector.select(timeout), read and feed for every key it returns,
\* and the end of the with block.  select() of a closed selector raises
\* ValueError (epoll, kqueue) or returns no key (select, poll).
PumpSelect ==
    /\ pump.kind = "BasePipePump"
    /\ pump.pumper = "select"
    /\ IF pump.selector = "closed"
       THEN \/ pump' = [pump EXCEPT !.select_on_closed = TRUE,
                                    !.selector_lock = "free",
                                    !.pumper = "dead",
                                    !.pumper_raised = "ValueError"]
            \/ pump' = [pump EXCEPT !.select_on_closed = TRUE,
                                    !.selector_lock = "free",
                                    !.pumper = "loop"]
       ELSE pump' = [ReadAll(pump) EXCEPT !.selector_lock = "free",
                                          !.pumper = "loop"]
    /\ UNCHANGED notPump

\* close() -> close_selector: if self.selector
CloseSelectorCheck ==
    /\ pump.kind = "BasePipePump"
    /\ pump.closer \in {"idle", "done"}
    /\ pump' = [pump EXCEPT !.closer =
                    IF pump.selector # "None" THEN "lock" ELSE "done"]
    /\ UNCHANGED notPump

\* close_selector: with self.selector_lock: self.selector.close()
CloseSelectorClose ==
    /\ pump.kind = "BasePipePump"
    /\ pump.closer = "lock"
    /\ pump.selector_lock = "free"
    /\ pump' = [pump EXCEPT !.selector = "closed", !.closer = "assign"]
    /\ UNCHANGED notPump

\* close_selector: self.selector = None, after the with block
CloseSelectorAssign ==
    /\ pump.kind = "BasePipePump"
    /\ pump.closer = "assign"
    /\ pump' = [pump EXCEPT !.selector = "None", !.closer = "done"]
    /\ UNCHANGED notPump

\* A step of the thread of as_thread().
Pumper ==
    \/ PumperLoop
    \/ PumpAcquire
    \/ PumpCheck
    \/ PumpSelect

\* A step of the thread that calls close().
Closer ==
    \/ CloseSelectorCheck
    \/ CloseSelectorClose
    \/ CloseSelectorAssign

ThreadNext ==
    \/ NewBasePipePump
    \/ PipeWrite
    \/ ThreadStart
    \/ Pumper
    \/ Closer

ThreadSpec == InitPool({1}) /\ [][ThreadNext]_vars

\* Both threads are scheduled fairly.
FairThreadSpec == ThreadSpec /\ WF_vars(Pumper) /\ WF_vars(Closer)

----------------------------------------------------------------------------
(* Properties of ThreadSpec *)

\* C35, first half: however the thread of as_thread() and close() are
\* interleaved, pump() never calls select() on a selector that
\* close_selector() has closed.
C35_NoSelectOnClosedSelector ==
    pump.kind = "BasePipePump" => ~pump.select_on_closed

\* C35, second half, under FairThreadSpec: once close() has returned, a
\* started pumper thread leaves its loop and ends.
PumperDiesAfterClose ==
    (pump.kind = "BasePipePump" /\ pump.closer = "done"
        /\ pump.pumper # "unstarted")
    ~> (pump.kind = "BasePipePump" /\ pump.pumper = "dead")

----------------------------------------------------------------------------
(* Properties of UploadSpec: an upload that succeeds *)

\* The total size of the first k chunks.
RECURSIVE SizeOfFirst(_)
SizeOfFirst(k) ==
    IF k = 0 THEN 0 ELSE SizeOfFirst(k - 1) + upload.chunks[k]

\* The progress events emitted so far.
ProgressEvents == SelectSeq(upload.events, LAMBDA e : e.event = "progress")

\* C36: when upload_parts has returned for n parts,
\* complete_multipart_upload was called once and abort_multipart_upload
\* never, and the Parts handed to it are the part numbers 1..n in ascending
\* order, each once, however many attempts a part took; at any moment there
\* is one progress event per part uploaded, in order, and its bytes_uploaded
\* is the total size of the parts uploaded up to it.
C36_CompletesWithEveryPartOnce ==
    upload.kind = "upload_parts" =>
        /\ upload.outcome.kind = "returned" =>
               /\ S3Calls("complete_multipart_upload") = 1
               /\ S3Calls("abort_multipart_upload") = 0
               /\ upload.s3[Len(upload.s3)].call = "complete_multipart_upload"
               /\ upload.outcome.Parts = [i \in 1..upload.parts |-> i]
               /\ Len(ProgressEvents) = upload.parts
        /\ \A k \in 1..Len(ProgressEvents) :
               /\ ProgressEvents[k].part_number = k
               /\ ProgressEvents[k].bytes_uploaded = SizeOfFirst(k)

\* An upload of parts of different sizes has returned, and its first and
\* its last part took more than one attempt.
C36_Witness ==
    /\ upload.kind = "upload_parts"
    /\ upload.outcome.kind = "returned"
    /\ upload.parts = MaxParts
    /\ \E i, j \in 1..upload.parts : upload.chunks[i] # upload.chunks[j]
    /\ Len(Attempts(1)) > 1
    /\ Len(Attempts(upload.parts)) > 1
    /\ ProgressEvents[upload.parts].bytes_uploaded = SizeOfFirst(upload.parts)

====
